---- MODULE Spec2Model ----
(***************************************************************************)
(* Verification model of the whale movement detector                       *)
(* (openckai/sui-whale-ai-agent).                                          *)
(*                                                                         *)
(*   SpecRetry : BaseAPIClient._make_request / _make_request_async, the    *)
(*               request-with-retry loop of src/api_clients/base_client.py *)
(*   Spec      : WhaleDetector.update_whale_holders                        *)
(*               (src/whale_detector/detector.py) over the store of        *)
(*               src/db/models.py, on SQLite and on PostgreSQL             *)
(*   SpecStats : update_whale_holders and update_wallet_stats              *)
(*   SpecGate  : the gates of update_monitored_tokens and                  *)
(*               update_whale_holders                                      *)
(*   SpecAlert : the alert decision of monitor_loop                        *)
(*   SpecWinRate : WalletStats.win_rate() and analyze_wallet               *)
(*   SpecLoop  : the cycles of monitor_loop                                *)
(*   SpecLive  : monitor_loop under fair scheduling                        *)
(*   SpecSpacing : the callers of the holder provider in main.py           *)
(*   SpecRetryLive : the request loop when attempts and sleeps end         *)
(*   SpecCycle   : monitor_loop while the fetched balances change          *)
(*   SpecActivity : step 3 of process_token_data                           *)
(*   SpecService : TokenService.get_trending_tokens                        *)
(*   SpecStore   : store_whale_holder of WhaleService and of main.py       *)
(*   SpecSame    : update_whale_holders, one balance at two valuations     *)
(*   SpecInsight : generate_short_insight, generate_concise_whale_insight  *)
(***************************************************************************)
EXTENDS Integers, Sequences, FiniteSets, TLC

(***************************************************************************)
(* Bounds of the model.                                                    *)
(***************************************************************************)
\* largest max_retries a client is constructed with (the default is 3)
MaxRetriesBound == 3
\* the clock runs from 0 to MaxTime
MaxTime == 2
\* longest holder list the provider serves
MaxRows == 2
\* most rows the table whale_movements comes to hold
MaxMovements == 2

(***************************************************************************)
(* Part 1: state of one request of BaseAPIClient.                          *)
(***************************************************************************)
VARIABLES
    max_retries,   \* BaseAPIClient.max_retries
    variant,       \* "sync" (_make_request) or "async" (_make_request_async)
    rpc,           \* position: "idle", "loop" (at the while test), "done"
    retries,       \* local retries
    last_error,    \* local last_error
    attempts,      \* history: what each client.request(...) attempt met
    sleeps,        \* history: the argument of every backoff sleep, in order
    result         \* how the call ended: "none" while running

rvars == <<max_retries, variant, rpc, retries, last_error, attempts, sleeps, result>>

(***************************************************************************)
(* Part 2: state of the detector and of the store.                         *)
(***************************************************************************)
VARIABLES
    now,                \* datetime.utcnow()
    update_interval,    \* WhaleDetector.update_interval, in ticks of the clock
    dialect,            \* database behind DATABASE_URL
    last_token_update,  \* WhaleDetector.last_token_update
    last_holder_update, \* WhaleDetector.last_holder_update
    tokens,             \* table tokens, by coin_type
    holders,            \* table whale_holders, by (token, address): committed rows
    holder_rows,        \* table whale_holders: how many rows each (token, address) has
    movements,          \* table whale_movements, in insertion order: committed rows
    wallet_stats,       \* table wallet_stats, by address: committed rows
    feed,               \* the holder list the provider serves at present
    updated_tokens,     \* monitor_loop: the list update_monitored_tokens returned
    call,               \* history: the last detector call and what it did
    alert,              \* history: the last alert decision of monitor_loop
    loop,               \* monitor_loop: its position in the cycle and what the cycle did
    batch               \* main.py: the caller of the holder provider that is running

dvars == <<now, update_interval, dialect, last_token_update, last_holder_update, tokens, holders, holder_rows,
           movements, wallet_stats, feed, updated_tokens, call, alert, loop, batch>>

vars == <<rvars, dvars>>

(***************************************************************************)
(* Values.  Money and balances are whole numbers; NoneVal stands for a     *)
(* field the provider left out (Python None), on which float() raises.     *)
(***************************************************************************)
Tokens == {"T1", "T2"}
Addrs == {"A", "B"}
NoneVal == -1

\* WhaleDetector.__init__ parameters
min_market_cap == 1000000
min_whale_holdings == 20000
\* main.py: seconds between Blockberry calls
BLOCKBERRY_RATE_LIMIT == 20
manual_tokens == {"T1"}
\* datetime.min, far before any reading of the clock
DatetimeMin == 0 - 1000000

\* float(x): the number itself, TypeError on None
FloatRaises(x) == x = NoneVal
Float(x) == x

\* absent rows of the three tables
NoToken == [market_cap |-> NoneVal, price_usd |-> NoneVal, volume_24h |-> NoneVal]
NoHolder == [balance |-> NoneVal, usd_value |-> NoneVal, percentage |-> NoneVal]
NoStats == [total_trades |-> NoneVal, total_pnl_usd |-> NoneVal, total_volume_usd |-> NoneVal]
NoMovement == [token |-> "None", address |-> "None", movement_type |-> "None",
               amount |-> 0, usd_value |-> 0, timestamp |-> 0]

\* the rows get_token_holders_async can return: address, balance, usd_value,
\* percentage taken with .get from the provider's content, so any may be None
HolderRow(a, b, u, p) == [address |-> a, balance |-> b, usd_value |-> u, percentage |-> p]
Rows ==
    {HolderRow("A", 1000, 30000, 5), HolderRow("A", 1500, 80000, 5),
     HolderRow("B", 1000, 30000, 5), HolderRow("A", 1000, 500, 5),
     HolderRow("A", 1500, 80000, NoneVal)}

\* what spot-trade-stats can answer: the request fails, the body is empty,
\* or a body whose fields may be missing; winRate is in hundredths
TraderResponse(k, p, n, v, w, r) ==
    [kind |-> k, pnl |-> p, totalTrades |-> n, volume |-> v, wins |-> w, winRate |-> r]
TraderResponses ==
    {TraderResponse("error", NoneVal, NoneVal, NoneVal, NoneVal, NoneVal),
     TraderResponse("empty", NoneVal, NoneVal, NoneVal, NoneVal, NoneVal),
     TraderResponse("data", 500, 10, 2000, 6, 60),
     TraderResponse("data", NoneVal, NoneVal, NoneVal, NoneVal, 0),
     TraderResponse("data", 500, 10, 2000, 6, NoneVal)}

\* history of a detector call: which operation on which token or address, at
\* what reading of the clock, whether the gate returned early, whether an
\* upstream provider was invoked, what the trader-statistics provider
\* answered, the exception that left the call, whether the call reconciled
\* the list the previous reconcile of the token had, what it returned, and
\* one log entry per holder row the loop reached; nmov and prev_stats are
\* the size of whale_movements and the table wallet_stats before the call;
\* wins is the number of winning trades the trader-statistics provider
\* reported, analysis the dictionary analyze_wallet returned, trader_stats
\* what get_trader_stats returned to update_wallet_stats; trending is
\* the list coins/trending answered, processed the coin types the loop of
\* update_monitored_tokens went through, in order, and with_details those
\* of them the token-details provider had data for
NoAnalysis == [win_rate |-> 0, avg_trade_size |-> 0, total_holdings |-> 0,
               total_trades |-> NoneVal]
NoCall == [op |-> "none", token |-> "None", address |-> "None", at |-> 0,
           gated |-> FALSE, provider |-> FALSE, trader |-> "none", raised |-> "none",
           repeat |-> FALSE, reconciled |-> FALSE,
           ret |-> <<>>, stats |-> NoStats, log |-> <<>>,
           nmov |-> 0, prev_stats |-> [a \in Addrs |-> NoStats],
           wins |-> NoneVal, analysis |-> NoAnalysis,
           trader_stats |-> [raised |-> TRUE, total_trades |-> 0, pnl |-> 0, volume |-> 0,
                             wins |-> 0, win_rate |-> 0],
           trending |-> <<>>, processed |-> <<>>, with_details |-> {}]
NoAlert == [kind |-> "none", token |-> "None", address |-> "None", is_meme |-> FALSE,
            total_holdings |-> 0, priority |-> "none"]

\* the store and the detector right after init_db() and WhaleDetector(...)
\* the update_interval values a detector is constructed with
Intervals == {2}

\* monitor_loop before its first cycle: pc is "start" (top of the while
\* body), "tokens" (at the test of "for token in updated_tokens", i the
\* token next in turn), "whales" (in "for whale in whales", at whale j),
\* "sleep" (the cycle ran to its end) or "except" (the except clause caught
\* raised); called lists the tokens update_whale_holders was called for in
\* the cycle, failed those whose holder provider failed, since is the
\* reading of the clock when the sleep began
NoLoop == [pc |-> "start", i |-> 0, j |-> 0, called |-> <<>>, refreshed |-> <<>>,
           failed |-> {}, raised |-> "none", since |-> 0]

\* no function of main.py is running: op is the function, coin_types its
\* list, i the entry in turn, pc "holders" (before the holders request of
\* entry i), "sleep" (in the sleep that follows it) or "activity" (step 3 of
\* process_token_data, over the wallets in whales); calls is the history of
\* the requests sent to the holder/activity provider, with the clock reading
NoBatch == [op |-> "none", coin_types |-> <<>>, i |-> 0, pc |-> "idle", calls |-> <<>>,
            whales |-> {}]

InitDetector ==
    /\ now = 0
    /\ last_token_update = DatetimeMin
    /\ last_holder_update = DatetimeMin
    /\ tokens = [t \in Tokens |-> NoToken]
    /\ holders = [k \in Tokens \X Addrs |-> NoHolder]
    /\ holder_rows = [k \in Tokens \X Addrs |-> 0]
    /\ movements = <<>>
    /\ wallet_stats = [a \in Addrs |-> NoStats]
    /\ feed = <<>>
    /\ updated_tokens = <<>>
    /\ call = NoCall
    /\ alert = NoAlert
    /\ loop = NoLoop
    /\ batch = NoBatch

\* 2 ** n
RECURSIVE Pow2(_)
Pow2(n) == IF n = 0 THEN 1 ELSE 2 * Pow2(n - 1)

\* status codes for which response.raise_for_status() raises HTTPStatusError
StatusCodes == {400, 404, 429, 500, 503}

\* what one attempt can meet: a 2xx response, httpx.TimeoutException, an
\* HTTP status error, another httpx.HTTPError (transport), any other exception
Outcomes == {[kind |-> "ok", status |-> 200],
             [kind |-> "timeout", status |-> 0],
             [kind |-> "http_error", status |-> 0],
             [kind |-> "other", status |-> 0]}
            \cup {[kind |-> "status", status |-> s] : s \in StatusCodes}

RetryIdle ==
    /\ rpc = "idle" /\ retries = 0 /\ last_error = "None"
    /\ attempts = <<>> /\ sleeps = <<>> /\ result = [kind |-> "none", status |-> 0]

InitRetry ==
    /\ max_retries \in 0..MaxRetriesBound
    /\ variant \in {"sync", "async"}
    /\ RetryIdle
    /\ update_interval = 1
    /\ dialect = "postgresql"
    /\ InitDetector

\* entry of the call: retries = 0, last_error = None
StartRequest ==
    /\ rpc \in {"idle", "done"}
    /\ rpc' = "loop"
    /\ retries' = 0
    /\ last_error' = "None"
    /\ attempts' = <<>>
    /\ sleeps' = <<>>
    /\ result' = [kind |-> "none", status |-> 0]
    /\ UNCHANGED <<max_retries, variant, dvars>>

\* the except clauses that count the failure and go round the loop again:
\* httpx.TimeoutException and httpx.HTTPError (HTTPStatusError is caught before)
RetryableAlsoStatus(o) == o.kind \in {"timeout", "http_error", "status"}
Retryable(o) == o.kind \in {"timeout", "http_error"}

\* the argument of the backoff sleep: 2 ** retries, retries already incremented
BackoffFromZero(n) == Pow2(n - 1)
Backoff(n) == Pow2(n)

\* the error raised when retries reaches max_retries
ExhaustedErrorAlwaysTimeout(o) == [kind |-> "APITimeoutError", status |-> 0]
ExhaustedError(o) ==
    IF o.kind = "timeout" THEN [kind |-> "APITimeoutError", status |-> 0]
                          ELSE [kind |-> "APIError", status |-> 0]

\* the error raised by the clauses that do not retry
SurfacedError(o) ==
    IF o.kind = "status" THEN [kind |-> "APIResponseError", status |-> o.status]
                         ELSE [kind |-> "APIError", status |-> 0]

\* one iteration of the while loop: the attempt and its except clause
LoopBody(o) ==
    /\ attempts' = Append(attempts, o)
    /\ IF o.kind = "ok"
         THEN /\ result' = [kind |-> "response", status |-> o.status]
              /\ rpc' = "done"
              /\ UNCHANGED <<retries, last_error, sleeps>>
         ELSE IF Retryable(o)
         THEN /\ last_error' = o.kind
              /\ retries' = retries + 1
              /\ IF retries + 1 = max_retries
                   THEN /\ result' = ExhaustedError(o)
                        /\ rpc' = "done"
                        /\ UNCHANGED sleeps
                   ELSE /\ sleeps' = Append(sleeps, Backoff(retries + 1))
                        /\ UNCHANGED <<result, rpc>>
         ELSE /\ result' = SurfacedError(o)
              /\ rpc' = "done"
              /\ UNCHANGED <<retries, last_error, sleeps>>
    /\ UNCHANGED <<max_retries, variant, dvars>>

\* BaseAPIClient._make_request: while retries < self.max_retries: ...
MakeRequestAttempt ==
    /\ variant = "sync"
    /\ rpc = "loop"
    /\ retries < max_retries
    /\ \E o \in Outcomes : LoopBody(o)

\* BaseAPIClient._make_request_async: the same loop with awaits
MakeRequestAsyncAttempt ==
    /\ variant = "async"
    /\ rpc = "loop"
    /\ retries < max_retries
    /\ \E o \in Outcomes : LoopBody(o)

\* the while test fails: the function falls off its end and returns None
LoopExit ==
    /\ rpc = "loop"
    /\ ~(retries < max_retries)
    /\ result' = [kind |-> "None", status |-> 0]
    /\ rpc' = "done"
    /\ UNCHANGED <<max_retries, variant, retries, last_error, attempts, sleeps, dvars>>

NextRetry ==
    \/ StartRequest
    \/ MakeRequestAttempt
    \/ MakeRequestAsyncAttempt
    \/ LoopExit

SpecRetry == InitRetry /\ [][NextRetry]_vars

\* the same requests when every attempt and every sleep of the loop comes to
\* an end (the client's timeout bounds an attempt, time.sleep and
\* asyncio.sleep return)
SpecRetryLive ==
    /\ InitRetry /\ [][NextRetry]_vars
    /\ WF_vars(MakeRequestAttempt)
    /\ WF_vars(MakeRequestAsyncAttempt)
    /\ WF_vars(LoopExit)

(***************************************************************************)
(* Part 2a: wallet statistics.                                             *)
(***************************************************************************)
\* InsideXClient.get_trader_stats: raises APIError when the request fails,
\* when the body is empty and when winRate is missing (None * 100); else the
\* cleaned dictionary, a missing number read as 0
GetTraderStatsZeroOnFailure(resp) ==
    IF resp.kind # "data" \/ resp.winRate = NoneVal
      THEN [raised |-> FALSE, total_trades |-> 0, pnl |-> 0, volume |-> 0, wins |-> 0,
            win_rate |-> 0]
      ELSE [raised |-> FALSE,
            total_trades |-> IF resp.totalTrades = NoneVal THEN 0 ELSE resp.totalTrades,
            pnl |-> IF resp.pnl = NoneVal THEN 0 ELSE resp.pnl,
            volume |-> IF resp.volume = NoneVal THEN 0 ELSE resp.volume,
            wins |-> IF resp.wins = NoneVal THEN 0 ELSE resp.wins,
            win_rate |-> resp.winRate]
GetTraderStats(resp) ==
    IF resp.kind # "data" \/ resp.winRate = NoneVal
      THEN [raised |-> TRUE, total_trades |-> 0, pnl |-> 0, volume |-> 0, wins |-> 0,
            win_rate |-> 0]
      ELSE [raised |-> FALSE,
            total_trades |-> IF resp.totalTrades = NoneVal THEN 0 ELSE resp.totalTrades,
            pnl |-> IF resp.pnl = NoneVal THEN 0 ELSE resp.pnl,
            volume |-> IF resp.volume = NoneVal THEN 0 ELSE resp.volume,
            wins |-> IF resp.wins = NoneVal THEN 0 ELSE resp.wins,
            win_rate |-> resp.winRate]

\* x / y of Python: ZeroDivisionError when y is 0; the quotients that occur
\* are whole or are compared after rounding down
TrueDiv(x, y) ==
    IF y = 0 THEN [raised |-> "ZeroDivisionError", value |-> 0]
             ELSE [raised |-> "none", value |-> x \div y]

\* WalletStats.win_rate(): 0 without trades or volume, else pnl / volume * 100
win_rate_unguarded(st) == TrueDiv(st.total_pnl_usd * 100, st.total_volume_usd)
win_rate(st) ==
    IF st.total_trades = 0 THEN [raised |-> "none", value |-> 0]
    ELSE IF st.total_volume_usd > 0
           THEN TrueDiv(st.total_pnl_usd * 100, st.total_volume_usd)
           ELSE [raised |-> "none", value |-> 0]

\* the number win_rate() returns
WinRate(st) == win_rate(st).value

\* the row update_wallet_stats leaves for an address: the stored row, or a
\* new WalletStats with the column defaults, overwritten from the provider
\* when get_trader_stats returned a dictionary
StatsAfter(before, resp) ==
    LET stats == IF before = NoStats
                   THEN [total_trades |-> 0, total_pnl_usd |-> 0, total_volume_usd |-> 0]
                   ELSE before
        ts == GetTraderStats(resp)
    IN  IF ts.raised THEN stats
        ELSE [total_trades |-> ts.total_trades,
              total_pnl_usd |-> ts.pnl,
              total_volume_usd |-> ts.volume]

(***************************************************************************)
(* Part 2b: the session of one update_whale_holders call.                  *)
(*   view : whale_holders as the session sees it (rows flushed so far and  *)
(*          the attribute changes made to loaded rows)                     *)
(*   db, mov, st : the committed tables                                    *)
(*   n, dbn : rows of whale_holders per (token, address), as the session   *)
(*          sees the table and as committed                                *)
(*   pend : WhaleHolder objects added and not yet flushed; autoflush is    *)
(*          off, so a query does not see them                              *)
(***************************************************************************)
\* UniqueConstraint('token_id', 'address') of whale_holders: an insert is in
\* conflict when the table has a row of the pair
UniqueNeverViolated(view, k) == FALSE
UniqueViolated(view, k) == view[k] # NoHolder

\* flush of the pending WhaleHolder inserts in order: an insert in conflict
\* replaces the row on sqlite (sqlite_on_conflict='REPLACE') and fails
\* elsewhere; n counts the rows of each pair
RECURSIVE Flush(_, _, _, _)
Flush(t, pend, view, n) ==
    IF pend = <<>> THEN [ok |-> TRUE, view |-> view, n |-> n]
    ELSE LET r == Head(pend)
             k == <<t, r.address>>
             row == [balance |-> r.balance, usd_value |-> r.usd_value,
                     percentage |-> r.percentage]
         IN  IF UniqueViolated(view, k)
               THEN IF dialect # "sqlite"
                      THEN [ok |-> FALSE, view |-> view, n |-> n]
                      ELSE Flush(t, Tail(pend), [view EXCEPT ![k] = row],
                                 [n EXCEPT ![k] = 1])
               ELSE Flush(t, Tail(pend), [view EXCEPT ![k] = row],
                          [n EXCEPT ![k] = @ + 1])

LogEntry(kind, r, before, mv) ==
    [kind |-> kind, row |-> r, before |-> before, movement |-> mv]

Raise(S, r, before, mv, exc) ==
    [S EXCEPT !.raised = exc, !.log = Append(@, LogEntry("raised", r, before, mv))]

\* lines 185-194: the WhaleMovement built for a changed balance
MovementSignSwapped(t, whale, r, current_time) ==
    [token |-> t, address |-> r.address,
     movement_type |-> IF Float(r.balance) > whale.balance THEN "sell" ELSE "buy",
     amount |-> IF Float(r.balance) > whale.balance
                  THEN Float(r.balance) - whale.balance
                  ELSE whale.balance - Float(r.balance),
     usd_value |-> IF Float(r.usd_value) > whale.usd_value
                     THEN Float(r.usd_value) - whale.usd_value
                     ELSE whale.usd_value - Float(r.usd_value),
     timestamp |-> current_time]
NewMovement(t, whale, r, current_time) ==
    [token |-> t, address |-> r.address,
     movement_type |-> IF Float(r.balance) > whale.balance THEN "buy" ELSE "sell",
     amount |-> IF Float(r.balance) > whale.balance
                  THEN Float(r.balance) - whale.balance
                  ELSE whale.balance - Float(r.balance),
     usd_value |-> IF Float(r.usd_value) > whale.usd_value
                     THEN Float(r.usd_value) - whale.usd_value
                     ELSE whale.usd_value - Float(r.usd_value),
     timestamp |-> current_time]

\* lines 194-197: db.add(movement); update_wallet_stats(...), whose
\* db.commit() flushes everything pending in the session
AddMovementAndStats(S, t, r, mv, resp) ==
    LET f == Flush(t, S.pend, S.view, S.n)
    IN  IF ~f.ok
          THEN [S EXCEPT !.raised = "IntegrityError", !.trader = resp.kind]
          ELSE [S EXCEPT !.view = f.view, !.db = f.view, !.pend = <<>>,
                         !.n = f.n, !.dbn = f.n,
                         !.mov = Append(@, mv),
                         !.st[r.address] = StatsAfter(@, resp),
                         !.trader = resp.kind]

\* lines 164-204: one iteration of "for holder_data in holders"
ThresholdPassesAnyValue(r) == Float(r.usd_value) >= 0
ThresholdPassesAlways(r) == TRUE
ThresholdPasses(r) == Float(r.usd_value) >= min_whale_holdings

\* line 184: whale.balance != float(holder_data['balance'])
BalanceDiffersOrNot(whale, r) == TRUE
BalanceDiffers(whale, r) == whale.balance # Float(r.balance)

ProcessRow(S, t, r, resp, current_time) ==
    IF S.raised # "none" THEN S
    ELSE IF FloatRaises(r.usd_value) THEN Raise(S, r, NoHolder, NoMovement, "TypeError")
    ELSE IF ~ThresholdPasses(r)
      THEN [S EXCEPT !.log = Append(@, LogEntry("below", r, S.view[<<t, r.address>>], NoMovement))]
    ELSE
      LET k == <<t, r.address>>
          whale == S.view[k]
      IN  IF whale = NoHolder
            THEN IF FloatRaises(r.balance) \/ FloatRaises(r.percentage)
                   THEN Raise(S, r, NoHolder, NoMovement, "TypeError")
                   ELSE [S EXCEPT !.pend = Append(@, r),
                                  !.ret = Append(@, r.address),
                                  !.log = Append(@, LogEntry("created", r, NoHolder, NoMovement))]
          ELSE IF FloatRaises(r.balance)
            THEN Raise(S, r, whale, NoMovement, "TypeError")
          ELSE
            LET moved == BalanceDiffers(whale, r)
                mv == IF moved THEN NewMovement(t, whale, r, current_time) ELSE NoMovement
                S1 == IF moved THEN AddMovementAndStats(S, t, r, mv, resp) ELSE S
            IN  IF S1.raised # "none"
                  THEN [S1 EXCEPT !.log = Append(@, LogEntry("rejected", r, whale, mv))]
                ELSE IF FloatRaises(r.percentage)
                  THEN Raise(S1, r, whale, mv, "TypeError")
                ELSE [S1 EXCEPT !.view[k] = [balance |-> Float(r.balance),
                                             usd_value |-> Float(r.usd_value),
                                             percentage |-> Float(r.percentage)],
                                !.ret = Append(@, r.address),
                                !.log = Append(@, LogEntry(IF moved THEN "moved" ELSE "same",
                                                           r, whale, mv))]

RECURSIVE ProcessRows(_, _, _, _, _)
ProcessRows(S, t, rows, resp, current_time) ==
    IF rows = <<>> THEN S
    ELSE ProcessRows(ProcessRow(S, t, Head(rows), resp, current_time),
                     t, Tail(rows), resp, current_time)

\* lines 161-206: the loop over the fetched rows and the final db.commit()
Reconcile(t, rows, resp, current_time) ==
    LET S0 == [view |-> holders, db |-> holders, n |-> holder_rows, dbn |-> holder_rows,
               pend |-> <<>>, mov |-> movements,
               st |-> wallet_stats, log |-> <<>>, ret |-> <<>>,
               raised |-> "none", trader |-> "none"]
        S == ProcessRows(S0, t, rows, resp, current_time)
        f == Flush(t, S.pend, S.view, S.n)
    IN  IF S.raised # "none" THEN S
        ELSE IF ~f.ok THEN [S EXCEPT !.raised = "IntegrityError"]
        ELSE [S EXCEPT !.view = f.view, !.db = f.view, !.pend = <<>>,
                       !.n = f.n, !.dbn = f.n]

(***************************************************************************)
(* Part 2c: the environment: the clock, the holder provider, main.py.      *)
(***************************************************************************)
Tick ==
    /\ now < MaxTime
    /\ now' = now + 1
    /\ UNCHANGED <<update_interval, dialect, last_token_update, last_holder_update, tokens, holders, holder_rows,
                   movements, wallet_stats, feed, updated_tokens, call, alert, loop, batch, rvars>>

\* the holders endpoint comes to serve one more row
FeedAppend(r) ==
    /\ Len(feed) < MaxRows
    /\ feed' = Append(feed, r)
    /\ call' = NoCall
    /\ alert' = NoAlert
    /\ UNCHANGED <<now, update_interval, dialect, last_token_update, last_holder_update, tokens, holders, holder_rows,
                   movements, wallet_stats, updated_tokens, loop, batch, rvars>>

\* the holders endpoint comes to serve an empty content
FeedClear ==
    /\ feed # <<>>
    /\ feed' = <<>>
    /\ call' = NoCall
    /\ alert' = NoAlert
    /\ UNCHANGED <<now, update_interval, dialect, last_token_update, last_holder_update, tokens, holders, holder_rows,
                   movements, wallet_stats, updated_tokens, loop, batch, rvars>>

\* main.store_token: insert the Token row or overwrite its market data
StoredTokenData == [market_cap |-> 50000000, price_usd |-> 2, volume_24h |-> 1000]
StoreToken(t) ==
    /\ tokens[t] # StoredTokenData
    /\ tokens' = [tokens EXCEPT ![t] = StoredTokenData]
    /\ call' = NoCall
    /\ alert' = NoAlert
    /\ UNCHANGED <<now, update_interval, dialect, last_token_update, last_holder_update, holders, holder_rows,
                   movements, wallet_stats, feed, updated_tokens, loop, batch, rvars>>

(***************************************************************************)
(* Part 2d: WhaleDetector.                                                 *)
(***************************************************************************)
\* lines 77 and 153: (current_time - last).total_seconds() < update_interval
GatedOneTickShort(current_time, last) == current_time - last < update_interval - 1
Gated(current_time, last) == current_time - last < update_interval

\* lines 206-207: self.last_holder_update = current_time follows db.commit(),
\* so a call that an exception left did not reach it
LastRunEvenIfRaised(raised, current_time, last) == current_time
LastRun(raised, current_time, last) == IF raised = "none" THEN current_time ELSE last

\* the answer drawn for a call that never asks the trader-statistics provider
DefaultResponse == CHOOSE x \in TraderResponses : x.kind = "error"

\* the history of a call that starts now: the operation, the clock reading
\* and the tables as they are before it
CallRecord(op, current_time) ==
    [NoCall EXCEPT !.op = op, !.at = current_time, !.nmov = Len(movements),
                   !.prev_stats = wallet_stats]

\* WhaleDetector.update_whale_holders(db, token)
UpdateWhaleHoldersBody(t) ==
    /\ tokens[t] # NoToken
    /\ Len(movements) + Len(feed) <= MaxMovements
    /\ alert' = NoAlert
    /\ LET current_time == now
           before == call.op = "update_whale_holders" /\ call.token = t /\ call.reconciled
       IN  IF Gated(current_time, last_holder_update)
             THEN /\ call' = [CallRecord("update_whale_holders", current_time) EXCEPT
                                 !.token = t, !.gated = TRUE, !.reconciled = before]
                  /\ UNCHANGED <<holders, holder_rows, movements, wallet_stats, last_holder_update>>
             ELSE \/ \* get_token_holders_async raises
                     /\ call' = [CallRecord("update_whale_holders", current_time) EXCEPT
                                    !.token = t, !.provider = TRUE, !.raised = "APIError",
                                    !.reconciled = before]
                     /\ UNCHANGED <<holders, holder_rows, movements, wallet_stats, last_holder_update>>
                  \/ \E resp \in TraderResponses :
                       LET R == Reconcile(t, feed, resp, current_time)
                       IN  /\ R.trader = "none" => resp = DefaultResponse
                           /\ holders' = R.db
                           /\ holder_rows' = R.dbn
                           /\ movements' = R.mov
                           /\ wallet_stats' = R.st
                           /\ last_holder_update' =
                                 LastRun(R.raised, current_time, last_holder_update)
                           /\ call' = [CallRecord("update_whale_holders", current_time) EXCEPT
                                 !.token = t,
                                 !.provider = TRUE, !.trader = R.trader,
                                 !.raised = R.raised, !.repeat = before,
                                 !.reconciled = TRUE,
                                 !.ret = IF R.raised = "none" THEN R.ret ELSE <<>>,
                                 !.log = R.log]
    /\ UNCHANGED <<now, update_interval, dialect, last_token_update, tokens, feed, updated_tokens, batch, rvars>>

\* update_whale_holders called for a token, whatever the position of the loop
UpdateWhaleHolders(t) == UpdateWhaleHoldersBody(t) /\ UNCHANGED loop

\* WhaleDetector.update_wallet_stats(db, address) called without a movement
UpdateWalletStats(a) ==
    /\ alert' = NoAlert
    /\ \E resp \in TraderResponses :
         /\ wallet_stats' = [wallet_stats EXCEPT ![a] = StatsAfter(@, resp)]
         /\ call' = [CallRecord("update_wallet_stats", now) EXCEPT
                                   !.address = a,
                                   !.provider = TRUE, !.trader = resp.kind,
                                   !.wins = GetTraderStats(resp).wins,
                                   !.trader_stats = GetTraderStats(resp),
                                   !.stats = StatsAfter(wallet_stats[a], resp)]
    /\ UNCHANGED <<now, update_interval, dialect, last_token_update, last_holder_update, tokens, holders, holder_rows,
                   movements, feed, updated_tokens, loop, batch, rvars>>

\* WhaleService.store_whale_holder (whale_service.py:30-57) and
\* main.store_whale_holder (main.py:385-427) for one fetched row: the
\* snapshot is created at the first sighting; with another balance the
\* Movement is added, the snapshot overwritten and update_wallet_stats
\* called; with the same balance nothing is written
StoreResult(t, holder, r, current_time) ==
    LET snapshot == [balance |-> Float(r.balance), usd_value |-> Float(r.usd_value),
                     percentage |-> Float(r.percentage)]
    IN  IF holder = NoHolder
          THEN [kind |-> "created", snapshot |-> snapshot, movement |-> NoMovement]
        ELSE IF holder.balance # Float(r.balance)
          THEN [kind |-> "moved", snapshot |-> snapshot,
                movement |-> NewMovement(t, holder, r, current_time)]
        ELSE [kind |-> "same", snapshot |-> holder, movement |-> NoMovement]

StoreWhaleHolder(impl, t, r) ==
    /\ tokens[t] # NoToken
    /\ Len(movements) < MaxMovements
    /\ alert' = NoAlert
    /\ LET k == <<t, r.address>>
           S == StoreResult(t, holders[k], r, now)
       IN  \E resp \in TraderResponses :
             /\ S.kind # "moved" => resp = DefaultResponse
             /\ holders' = [holders EXCEPT ![k] = S.snapshot]
             /\ holder_rows' = [holder_rows EXCEPT ![k] = IF S.kind = "created" THEN 1 ELSE @]
             /\ movements' = IF S.kind = "moved" THEN Append(movements, S.movement)
                                                ELSE movements
             /\ wallet_stats' = IF S.kind = "moved"
                                  THEN [wallet_stats EXCEPT ![r.address] = StatsAfter(@, resp)]
                                  ELSE wallet_stats
             /\ call' = [CallRecord(impl, now) EXCEPT
                            !.token = t, !.address = r.address,
                            !.trader = IF S.kind = "moved" THEN resp.kind ELSE "none",
                            !.ret = <<r.address>>,
                            !.log = <<LogEntry(S.kind, r, holders[k], S.movement)>>]
    /\ UNCHANGED <<now, update_interval, dialect, last_token_update, last_holder_update, tokens,
                   feed, updated_tokens, loop, batch, rvars>>

\* WhaleDetector.is_meme_token over what a dictionary's .get returns:
\* coin_type, whether name or symbol holds a meme keyword, marketCap
utility_tokens == {"0x2::sui::SUI", "0x2::sui::BLUE"}
IsMemeToken(token_data) ==
    IF token_data.coin_type \in utility_tokens THEN FALSE
    ELSE IF token_data.keyword THEN TRUE
    ELSE IF token_data.marketCap < 10000000 THEN TRUE
    ELSE FALSE

\* the dictionary get_token_details_async builds (blockberry.py:115-122) has
\* the keys symbol, name, market_cap, price, volume_24h, holders: the
\* detector's .get('coin_type') finds None and .get('marketCap') and
\* .get('totalVolume') find nothing, which float(... or 0) reads as 0
TokenDetails == [coin_type |-> "None", keyword |-> FALSE, marketCap |-> 0,
                 market_cap |-> 50000000, price |-> 3, totalVolume |-> 0]

\* the entries coins/trending can answer with: the coin type (all of the
\* chain, "0x..."), marketCap, and whether coinMetadata carries the name and
\* the symbol
TrendingItem(c, cap, named) == [coin |-> c, marketCap |-> cap, named |-> named]
TrendingLists ==
    {<<>>,
     <<TrendingItem("T2", 2000000, TRUE)>>,
     <<TrendingItem("T2", 500000, TRUE)>>,
     <<TrendingItem("T1", 500000, TRUE)>>,
     <<TrendingItem("T2", 2000000, FALSE)>>,
     <<TrendingItem("T2", 2000000, TRUE), TrendingItem("T2", 2000000, TRUE)>>}

\* InsideXClient.get_trending_tokens(min_market_cap): the entries whose
\* marketCap is at least min_market_cap, cleaned by _clean_token_data: the
\* keys coin_type, name, symbol (None when coinMetadata lacks them),
\* market_cap; no key marketCap, which the detector reads as 0
RECURSIVE GetTrendingTokens(_)
GetTrendingTokens(list) ==
    IF list = <<>> THEN <<>>
    ELSE (IF Head(list).marketCap < min_market_cap THEN <<>>
          ELSE <<[coin_type |-> Head(list).coin, named |-> Head(list).named,
                  keyword |-> FALSE, marketCap |-> 0,
                  market_cap |-> Head(list).marketCap]>>)
         \o GetTrendingTokens(Tail(list))

\* is_meme_token lines 53-58: .lower() on a name or symbol that is None
\* raises AttributeError, unless the coin is a known utility token
IsMemeTokenRaises(token_data) ==
    token_data.coin_type \notin utility_tokens /\ ~token_data.named

\* lines 82-105: all_tokens, the manual tokens and the coin types of the
\* trending list; any exception of the try block leaves the manual tokens
AllTokensNoFallback(trending_ok, list) ==
    IF ~trending_ok THEN {}
    ELSE LET trending == GetTrendingTokens(list)
         IN  IF \E i \in 1..Len(trending) : IsMemeTokenRaises(trending[i])
               THEN manual_tokens
               ELSE manual_tokens \cup {trending[i].coin_type : i \in 1..Len(trending)}
AllTokens(trending_ok, list) ==
    IF ~trending_ok THEN manual_tokens
    ELSE LET trending == GetTrendingTokens(list)
         IN  IF \E i \in 1..Len(trending) : IsMemeTokenRaises(trending[i])
               THEN manual_tokens
               ELSE manual_tokens \cup {trending[i].coin_type : i \in 1..Len(trending)}

\* the attributes of the mapped class Token; its constructor raises TypeError
\* for any other keyword
TokenAttributes == {"id", "coin_type", "symbol", "name", "market_cap", "price_usd",
                    "volume_24h", "created_at", "updated_at", "whale_holders",
                    "whale_movements"}
NewTokenKeywords == {"coin_type", "symbol", "name", "market_cap", "price_usd",
                     "volume_24h", "is_meme_token"}
NewTokenRaises == ~(NewTokenKeywords \subseteq TokenAttributes)

\* lines 108-142: the loop over all_tokens in the order the set yields them
RECURSIVE RefreshTokens(_, _, _, _)
RefreshTokens(order, details, tk, upd) ==
    IF order = <<>> THEN [tokens |-> tk, updated |-> upd]
    ELSE LET c == Head(order)
         IN  IF ~details[c]
               THEN RefreshTokens(Tail(order), details, tk, upd)
             ELSE IF tk[c] = NoToken
               THEN IF NewTokenRaises
                      THEN RefreshTokens(Tail(order), details, tk, upd)
                      ELSE RefreshTokens(Tail(order), details,
                              [tk EXCEPT ![c] = [market_cap |-> TokenDetails.marketCap,
                                                 price_usd |-> TokenDetails.price,
                                                 volume_24h |-> TokenDetails.totalVolume]],
                              Append(upd, [coin_type |-> c,
                                           is_meme_token |-> IsMemeToken(TokenDetails)]))
             ELSE RefreshTokens(Tail(order), details,
                     [tk EXCEPT ![c] = [market_cap |-> TokenDetails.marketCap,
                                        price_usd |-> TokenDetails.price,
                                        volume_24h |-> TokenDetails.totalVolume]],
                     Append(upd, [coin_type |-> c,
                                  is_meme_token |-> IsMemeToken(TokenDetails)]))

\* the orders in which iterating a set can yield its members
Orders(S) == {o \in [1..Cardinality(S) -> S] : \A i, j \in 1..Cardinality(S) : o[i] = o[j] => i = j}

RECURSIVE CoinTypes(_)
CoinTypes(upd) == IF upd = <<>> THEN <<>> ELSE <<Head(upd).coin_type>> \o CoinTypes(Tail(upd))

\* WhaleDetector.update_monitored_tokens(db)
UpdateMonitoredTokensBody ==
    /\ alert' = NoAlert
    /\ LET current_time == now
       IN  IF Gated(current_time, last_token_update)
             THEN /\ call' = [CallRecord("update_monitored_tokens", current_time) EXCEPT
                                 !.gated = TRUE]
                  /\ UNCHANGED <<tokens, updated_tokens, last_token_update>>
             ELSE \E trending_ok \in BOOLEAN, trending \in TrendingLists,
                     details \in [Tokens -> BOOLEAN] :
                    LET all_tokens == AllTokens(trending_ok, trending)
                    IN  /\ ~trending_ok => trending = <<>>
                        /\ \A c \in Tokens \ all_tokens : ~details[c]
                        /\ \E order \in Orders(all_tokens) :
                             LET R == RefreshTokens(order, details, tokens, <<>>)
                             IN  /\ tokens' = R.tokens
                                 /\ updated_tokens' = R.updated
                                 /\ last_token_update' = current_time
                                 /\ call' = [CallRecord("update_monitored_tokens", current_time) EXCEPT
                                       !.provider = TRUE,
                                       !.trader = IF trending_ok THEN "trending" ELSE "APIError",
                                       !.trending = trending,
                                       !.processed = order,
                                       !.with_details = {c \in Tokens : details[c]},
                                       !.ret = CoinTypes(R.updated)]
    /\ UNCHANGED <<now, update_interval, dialect, last_holder_update, holders, holder_rows, movements, wallet_stats,
                   feed, batch, rvars>>

\* update_monitored_tokens called, whatever the position of the loop
UpdateMonitoredTokens == UpdateMonitoredTokensBody /\ UNCHANGED loop

\* analyze_wallet: sum(h.usd_value for h in holdings) over the wallet's rows
RECURSIVE SumHoldings(_, _)
SumHoldings(ts, a) ==
    IF ts = {} THEN 0
    ELSE LET t == CHOOSE x \in ts : TRUE
         IN  (IF holders[<<t, a>>] = NoHolder THEN 0 ELSE holders[<<t, a>>].usd_value)
             + SumHoldings(ts \ {t}, a)

\* analyze_wallet: the movements joined to the wallet's holder rows
MovementsOf(a) == SelectSeq(movements, LAMBDA m : m.address = a)

\* WhaleDetector.analyze_wallet(db, address): {} without a WalletStats row,
\* else the metrics computed from the row and from the wallet's snapshots
AnalyzeWallet(a) ==
    /\ alert' = NoAlert
    /\ LET stats == wallet_stats[a]
           w == win_rate(stats)
           avg == IF stats.total_trades > 0
                    THEN TrueDiv(stats.total_volume_usd, stats.total_trades)
                    ELSE [raised |-> "none", value |-> 0]
           C == [CallRecord("analyze_wallet", now) EXCEPT !.address = a, !.stats = stats]
       IN  call' =
             IF stats = NoStats THEN C
             ELSE IF w.raised # "none" THEN [C EXCEPT !.raised = w.raised]
             ELSE IF avg.raised # "none" THEN [C EXCEPT !.raised = avg.raised]
             ELSE [C EXCEPT !.analysis = [win_rate |-> w.value,
                                          avg_trade_size |-> avg.value,
                                          total_holdings |-> SumHoldings(Tokens, a),
                                          total_trades |-> stats.total_trades]]
    /\ UNCHANGED <<now, update_interval, dialect, last_token_update, last_holder_update, tokens, holders, holder_rows,
                   movements, wallet_stats, feed, updated_tokens, loop, batch, rvars>>

\* monitor_loop lines 308 and 338: which alert is printed
AlertPriorityInclusive(is_meme, total_holdings) ==
    IF is_meme THEN "high"
    ELSE IF total_holdings >= 100000 THEN "low"
    ELSE "none"
AlertPriority(is_meme, total_holdings) ==
    IF is_meme THEN "high"
    ELSE IF total_holdings > 100000 THEN "low"
    ELSE "none"

\* monitor_loop lines 299-344: the body of "for whale in whales" for one
\* whale of the list update_whale_holders returned for a token of
\* updated_tokens
EvaluateWhaleBody(i, j) ==
    /\ call.op = "update_whale_holders"
    /\ updated_tokens[i].coin_type = call.token
    /\ LET token == updated_tokens[i]
           address == call.ret[j]
           total == SumHoldings(Tokens, address)
       IN  alert' =
             IF wallet_stats[address] = NoStats
               THEN [NoAlert EXCEPT !.kind = "no_analysis", !.token = token.coin_type,
                                    !.address = address]
             ELSE IF MovementsOf(address) = <<>>
               THEN [NoAlert EXCEPT !.kind = "no_movement", !.token = token.coin_type,
                                    !.address = address]
             ELSE [kind |-> "decided", token |-> token.coin_type, address |-> address,
                   is_meme |-> token.is_meme_token, total_holdings |-> total,
                   priority |-> AlertPriority(token.is_meme_token, total)]
    /\ UNCHANGED <<now, update_interval, dialect, last_token_update, last_holder_update, tokens, holders, holder_rows,
                   movements, wallet_stats, feed, updated_tokens, call, batch, rvars>>

\* the alert decision for a whale, whatever the position of the loop
EvaluateWhale(i, j) == EvaluateWhaleBody(i, j) /\ UNCHANGED loop

(***************************************************************************)
(* Part 2e: monitor_loop, one action per awaited stage of a cycle.         *)
(***************************************************************************)
\* lines 288-292: start() runs monitor_loop as the only coroutine of the
\* event loop (line 362), and the coroutine comes to the first statement of
\* the while body only from the end of the previous iteration
CycleMayStartAnytime(pc) == pc \in {"start", "tokens", "sleep"}
CycleMayStart(pc) == pc = "start"

\* line 292: updated_tokens = await self.update_monitored_tokens(db)
MonitorTokens ==
    /\ CycleMayStart(loop.pc)
    /\ UpdateMonitoredTokensBody
    /\ loop' = [NoLoop EXCEPT !.pc = "tokens", !.i = 1]

\* line 349, "except Exception": the exceptions a cycle raises are all
\* subclasses of Exception (APIError of the clients, TypeError of float(None),
\* IntegrityError of the store), so the clause catches each of them; one it
\* did not catch would leave monitor_loop and end asyncio.run (pc "dead")
Exceptions == {"APIError", "TypeError", "IntegrityError"}
CaughtProviderErrorsOnly(exc) == exc = "APIError"
Caught(exc) == exc \in Exceptions

\* lines 295-296: whales = await self.update_whale_holders(db, token); an
\* exception leaves the for loop and the with block for the except clause
\* of line 349
MonitorHolders ==
    /\ loop.pc = "tokens"
    /\ loop.i <= Len(updated_tokens)
    /\ UpdateWhaleHoldersBody(updated_tokens[loop.i].coin_type)
    /\ LET token == updated_tokens[loop.i].coin_type
           L == [loop EXCEPT !.called = Append(@, token),
                             !.refreshed = IF call'.provider /\ call'.raised = "none"
                                             THEN Append(@, token) ELSE @,
                             !.failed = IF call'.raised = "APIError"
                                          THEN @ \cup {token} ELSE @]
       IN  loop' = IF call'.raised # "none"
                     THEN [L EXCEPT !.pc = IF Caught(call'.raised) THEN "except" ELSE "dead",
                                    !.raised = call'.raised,
                                    !.since = now]
                   ELSE IF call'.ret = <<>>
                     THEN [L EXCEPT !.i = @ + 1]
                     ELSE [L EXCEPT !.pc = "whales", !.j = 1]

\* lines 299-344: the body of "for whale in whales" for the whale in turn
MonitorWhale ==
    /\ loop.pc = "whales"
    /\ EvaluateWhaleBody(loop.i, loop.j)
    /\ loop' = IF loop.j < Len(call.ret)
                 THEN [loop EXCEPT !.j = @ + 1]
                 ELSE [loop EXCEPT !.pc = "tokens", !.i = @ + 1, !.j = 0]

\* line 347: the for loop is exhausted, await asyncio.sleep(update_interval)
MonitorSleep ==
    /\ loop.pc = "tokens"
    /\ loop.i > Len(updated_tokens)
    /\ loop' = [loop EXCEPT !.pc = "sleep", !.since = now]
    /\ UNCHANGED <<now, update_interval, dialect, last_token_update, last_holder_update, tokens,
                   holders, holder_rows, movements, wallet_stats, feed, updated_tokens, call,
                   alert, batch, rvars>>

\* the sleep of line 347 (update_interval) or of line 351 (5 seconds, less
\* than a tick of the clock) is over: back to the top of "while True"
MonitorWake ==
    /\ \/ loop.pc = "sleep" /\ now - loop.since >= update_interval
       \/ loop.pc = "except"
    /\ loop' = [loop EXCEPT !.pc = "start"]
    /\ UNCHANGED <<now, update_interval, dialect, last_token_update, last_holder_update, tokens,
                   holders, holder_rows, movements, wallet_stats, feed, updated_tokens, call,
                   alert, batch, rvars>>

(***************************************************************************)
(* Part 2f: the callers of the holder/activity provider in main.py.  In    *)
(* SpecSpacing a tick of the clock is BLOCKBERRY_RATE_LIMIT seconds.       *)
(***************************************************************************)
\* asyncio.sleep(seconds) in whole ticks of that clock
SleepTicks(seconds) == seconds \div BLOCKBERRY_RATE_LIMIT

\* the lists of coin types a caller is given: get_token_whales_batch and
\* analyze_multiple_tokens take any list, process_token_data the coin types
\* of the trending tokens
CoinTypeLists == {<<"T1">>, <<"T1", "T2">>, <<"T1", "T1">>}
BatchCallers == {"get_token_whales_batch", "analyze_multiple_tokens", "process_token_data"}

\* entry of one of the three functions
BatchStart(op, list) ==
    /\ batch.pc = "idle"
    /\ batch' = [NoBatch EXCEPT !.op = op, !.coin_types = list, !.i = 1, !.pc = "holders"]
    /\ UNCHANGED <<now, update_interval, dialect, last_token_update, last_holder_update, tokens,
                   holders, holder_rows, movements, wallet_stats, feed, updated_tokens, call,
                   alert, loop, rvars>>

\* main.py lines 80-98, 286-361 and 466-474: one iteration of the loop over
\* the coin types: await blockberry.get_token_holders_async(coin_type) inside
\* a try; the two batch functions sleep BLOCKBERRY_RATE_LIMIT after an
\* iteration that raised nothing unless coin_type equals the last entry of
\* the list, process_token_data collects the whales and goes on at once
HoldersCall ==
    /\ batch.pc = "holders"
    /\ batch.i <= Len(batch.coin_types)
    /\ \E ok \in BOOLEAN, found \in SUBSET Addrs :
         /\ ~ok => found = {}
         /\ LET coin_type == batch.coin_types[batch.i]
                B == [batch EXCEPT !.calls = Append(@, [endpoint |-> "holders", at |-> now])]
            IN  batch' =
                  IF batch.op = "process_token_data"
                    THEN [B EXCEPT !.whales = @ \cup found, !.i = @ + 1]
                  ELSE IF ok /\ coin_type # batch.coin_types[Len(batch.coin_types)]
                    THEN [B EXCEPT !.pc = "sleep"]
                    ELSE [B EXCEPT !.i = @ + 1]
    /\ UNCHANGED <<now, update_interval, dialect, last_token_update, last_holder_update, tokens,
                   holders, holder_rows, movements, wallet_stats, feed, updated_tokens, call,
                   alert, loop, rvars>>

\* main.py lines 94 and 356: await asyncio.sleep(BLOCKBERRY_RATE_LIMIT)
BatchSleep ==
    /\ batch.pc = "sleep"
    /\ now + SleepTicks(BLOCKBERRY_RATE_LIMIT) <= MaxTime
    /\ now' = now + SleepTicks(BLOCKBERRY_RATE_LIMIT)
    /\ batch' = [batch EXCEPT !.pc = "holders", !.i = @ + 1]
    /\ UNCHANGED <<update_interval, dialect, last_token_update, last_holder_update, tokens,
                   holders, holder_rows, movements, wallet_stats, feed, updated_tokens, call,
                   alert, loop, rvars>>

\* the loop over the coin types is exhausted: the batch functions return,
\* process_token_data goes on to step 3
HoldersDone ==
    /\ batch.pc = "holders"
    /\ batch.i > Len(batch.coin_types)
    /\ batch' = IF batch.op = "process_token_data"
                  THEN [batch EXCEPT !.pc = "activity"]
                  ELSE [batch EXCEPT !.pc = "idle"]
    /\ UNCHANGED <<now, update_interval, dialect, last_token_update, last_holder_update, tokens,
                   holders, holder_rows, movements, wallet_stats, feed, updated_tokens, call,
                   alert, loop, rvars>>

\* main.py line 480 and blockberry.py lines 255-258: fetch_whale_activity
\* for a wallet of whale_addresses sleeps 30 seconds and sends its request
ActivityCall ==
    /\ batch.pc = "activity"
    /\ now + SleepTicks(30) <= MaxTime
    /\ \E address \in batch.whales :
         batch' = [batch EXCEPT !.whales = @ \ {address},
                                !.calls = Append(@, [endpoint |-> "activity",
                                                     at |-> now + SleepTicks(30)])]
    /\ now' = now + SleepTicks(30)
    /\ UNCHANGED <<update_interval, dialect, last_token_update, last_holder_update, tokens,
                   holders, holder_rows, movements, wallet_stats, feed, updated_tokens, call,
                   alert, loop, rvars>>

\* the loop over whale_addresses is exhausted: process_token_data returns
ActivityDone ==
    /\ batch.pc = "activity"
    /\ batch.whales = {}
    /\ batch' = [batch EXCEPT !.pc = "idle"]
    /\ UNCHANGED <<now, update_interval, dialect, last_token_update, last_holder_update, tokens,
                   holders, holder_rows, movements, wallet_stats, feed, updated_tokens, call,
                   alert, loop, rvars>>

\* str.lower() on the symbols the activity provider reports
Lower(symbol) ==
    CASE symbol = "LOFI" -> "lofi"
      [] symbol = "Lofi" -> "lofi"
      [] symbol = "SUI" -> "sui"
      [] OTHER -> symbol

\* main.has_recent_meme_swap: some activity names the coin among its coins
\* and has "Swap" among its types
has_recent_meme_swap(activity_list, meme_coin_symbol) ==
    \E i \in 1..Len(activity_list) :
        \E c \in 1..Len(activity_list[i].coins) :
            /\ Lower(activity_list[i].coins[c]) = Lower(meme_coin_symbol)
            /\ "Swap" \in activity_list[i].activityType

\* main.py lines 478-537: the body of "for address in whale_addresses" on
\* the list fetch_whale_activity returned. An empty list is passed over;
\* else update_wallet_stats, get_wallet_stats, and the header "LOFI Whale
\* Movement Detected" is printed by line 484 when has_recent_meme_swap and
\* by line 529 when not; line 531 then formats whale_stats['win_rate'], the
\* bound method, with ".2f": TypeError, caught by line 535
ProcessWhaleActivity(address, activity_list) ==
    /\ alert' = NoAlert
    /\ IF activity_list = <<>>
         THEN /\ call' = [op |-> "process_token_data", address |-> address,
                          activity_list |-> activity_list, branch |-> "no_activity",
                          header_printed |-> FALSE, caught |-> "none"]
              /\ UNCHANGED wallet_stats
         ELSE \E resp \in TraderResponses :
                /\ wallet_stats' = [wallet_stats EXCEPT ![address] = StatsAfter(@, resp)]
                /\ call' = IF has_recent_meme_swap(activity_list, "LOFI")
                             THEN [op |-> "process_token_data", address |-> address,
                                   activity_list |-> activity_list, branch |-> "swap",
                                   header_printed |-> TRUE, caught |-> "none"]
                             ELSE [op |-> "process_token_data", address |-> address,
                                   activity_list |-> activity_list, branch |-> "holding",
                                   header_printed |-> TRUE, caught |-> "TypeError"]
    /\ UNCHANGED <<now, update_interval, dialect, last_token_update, last_holder_update, tokens,
                   holders, holder_rows, movements, feed, updated_tokens, loop, batch, rvars>>

(***************************************************************************)
(* Part 2g: TokenService.get_trending_tokens over InsideXClient and        *)
(* BaseAPIClient.get.                                                      *)
(***************************************************************************)
\* what the body of a 2xx response of coins/trending can be: a JSON list, a
\* JSON object, the JSON null, or text that is not JSON
Bodies == {"list", "dict", "null", "invalid"}

\* an exception of api_clients, or of Python, with the status code of an
\* APIResponseError
Exc(kind, status) == [kind |-> kind, status |-> status]
NoExc == Exc("none", 0)

\* BaseAPIClient.get (base_client.py:219-232) on the outcome of
\* _make_request: the errors of the request loop pass through; a loop that
\* made no attempt returned None, on which .json() raises AttributeError;
\* text that is not JSON raises APIError and null APIMissingDataError
Get(res, body) ==
    IF res.kind \in {"APITimeoutError", "APIError", "APIResponseError"}
      THEN [raised |-> Exc(res.kind, res.status), data |-> "none"]
    ELSE IF res.kind = "None" THEN [raised |-> Exc("AttributeError", 0), data |-> "none"]
    ELSE IF body = "invalid" THEN [raised |-> Exc("APIError", 0), data |-> "none"]
    ELSE IF body = "null" THEN [raised |-> Exc("APIMissingDataError", 0), data |-> "none"]
    ELSE [raised |-> NoExc, data |-> body]

\* InsideXClient.get_trending_tokens (insidex.py:31-70): the filtered list,
\* APIMissingDataError inside the try when the response is not a list, and
\* "except Exception: raise APIError(...)" around all of it, which turns
\* every exception into a plain APIError
InsideXTrending(res, body, list) ==
    LET g == Get(res, body)
    IN  IF g.raised # NoExc THEN [raised |-> Exc("APIError", 0), tokens |-> <<>>]
        ELSE IF g.data # "list" THEN [raised |-> Exc("APIError", 0), tokens |-> <<>>]
        ELSE [raised |-> NoExc, tokens |-> GetTrendingTokens(list)]

\* tokens[:10]
FirstTen(l) == SubSeq(l, 1, IF Len(l) < 10 THEN Len(l) ELSE 10)

\* TokenService.get_trending_tokens (token_service.py:14-52): the except
\* clauses in their order; an exception none of them names propagates
ServiceTrending(res, body, list) ==
    LET r == InsideXTrending(res, body, list)
        e == r.raised
    IN  IF e = NoExc THEN [raised |-> NoExc, ret |-> FirstTen(r.tokens)]
        ELSE IF e.kind = "APITimeoutError" THEN [raised |-> NoExc, ret |-> <<>>]
        ELSE IF e.kind = "APIResponseError"
          THEN IF e.status = 429 \/ e.status >= 500
                 THEN [raised |-> NoExc, ret |-> <<>>]
                 ELSE [raised |-> e, ret |-> <<>>]
        ELSE IF e.kind = "APIMissingDataError" THEN [raised |-> NoExc, ret |-> <<>>]
        ELSE [raised |-> e, ret |-> <<>>]

\* the history of a call of the service: what the request loop ended with,
\* the body and the list of a 2xx response, and how the call ended
ServiceCall(res, body, list, out) ==
    [op |-> "TokenService.get_trending_tokens", result |-> res, body |-> body,
     trending |-> list, raised |-> out.raised, ret |-> out.ret]

\* TokenService.get_trending_tokens called: the request of
\* self.get("coins/trending") is the request loop that just ended
TokenServiceGetTrendingTokens ==
    /\ rpc = "done"
    /\ variant = "sync"
    /\ \E body \in Bodies, list \in TrendingLists :
         /\ result.kind # "response" => (body = "null" /\ list = <<>>)
         /\ body # "list" => list = <<>>
         /\ call' = ServiceCall(result, body, list, ServiceTrending(result, body, list))
    /\ UNCHANGED <<now, update_interval, dialect, last_token_update, last_holder_update, tokens,
                   holders, holder_rows, movements, wallet_stats, feed, updated_tokens,
                   alert, loop, batch, rvars>>

(***************************************************************************)
(* Part 2h: WhaleInsightGenerator (modules/ai_insights).  Win rates are in *)
(* tenths of a percent, amounts in whole dollars.                          *)
(***************************************************************************)
\* a percentage in tenths of a percent
Pct(n) == n * 10

\* f"{x/unit:.1f}": the number printed, in tenths, rounded to the nearest (a
\* tie goes to the even digit)
OneDecimal(x, unit) ==
    LET d == unit \div 10
        q == x \div d
        r == x % d
    IN  IF 2 * r > d \/ (2 * r = d /\ q % 2 = 1) THEN q + 1 ELSE q

\* f"${x/1000:.1f}K" if x >= 1000 else f"${x:.0f}": the unit and the number
\* printed
FormatUsd(x) ==
    IF x >= 1000
      THEN [unit |-> "K", value |-> OneDecimal(x, 1000)]
      ELSE [unit |-> "", value |-> x]

\* generate_short_insight (openai_service.py:107-144, the same text in
\* insight_generator.py:44-81): the parts of the returned string
SignalInclusive(w) ==
    IF w >= Pct(65) THEN "strong bullish signal"
    ELSE IF w > Pct(50) THEN "could signal a trend shift"
    ELSE IF w < Pct(35) THEN "high-risk movement"
    ELSE "proceed with caution"
Signal(w) ==
    IF w > Pct(65) THEN "strong bullish signal"
    ELSE IF w > Pct(50) THEN "could signal a trend shift"
    ELSE IF w < Pct(35) THEN "high-risk movement"
    ELSE "proceed with caution"

ShortInsight(w, movement_type, amount_usd, token_symbol) ==
    [formatted_amount |-> FormatUsd(amount_usd),
     whale_type |-> IF w > Pct(50) THEN "smart" ELSE "risky",
     whale_emoji |-> IF w > Pct(50) THEN "whale" ELSE "warning",
     action |-> movement_type \o "ed",
     token_symbol |-> token_symbol,
     win_rate |-> w,
     signal |-> Signal(w)]

GenerateShortInsight ==
    /\ \E w \in {0, 349, 350, 351, 499, 500, 501, 649, 650, 651, 1000},
          movement_type \in {"buy", "sell"}, amount_usd \in {950, 1000, 8740, 15500} :
         call' = [op |-> "generate_short_insight", win_rate |-> w,
                  movement_type |-> movement_type, amount_usd |-> amount_usd,
                  raised |-> "none",
                  ret |-> ShortInsight(w, movement_type, amount_usd, "LOFI")]
    /\ UNCHANGED <<now, update_interval, dialect, last_token_update, last_holder_update, tokens,
                   holders, holder_rows, movements, wallet_stats, feed, updated_tokens,
                   alert, loop, batch, rvars>>

\* generate_concise_whale_insight (openai_service.py:185-247): the keys the
\* body reads from stats and from movement, all of them on every path
StatsKeys == {"total_volume_usd", "average_trade", "total_pnl_usd", "win_rate"}
MovementKeys == {"usd_value", "token_symbol", "movement_type"}

\* the body of the try block: KeyError at the first key that is missing,
\* else the parts of the insight
ConciseBody(stats, movement, include_hashtags) ==
    IF ~(StatsKeys \subseteq DOMAIN stats /\ MovementKeys \subseteq DOMAIN movement)
      THEN [raised |-> "KeyError", insight |-> [text |-> "none"]]
      ELSE LET is_smart == stats.win_rate > Pct(50)
               above == movement.usd_value > stats.average_trade
           IN  [raised |-> "none",
                insight |->
                  [text |-> "insight",
                   volume |-> IF stats.total_volume_usd >= 1000000
                                THEN [unit |-> "M", value |-> OneDecimal(stats.total_volume_usd, 1000000)]
                                ELSE [unit |-> "K", value |-> OneDecimal(stats.total_volume_usd, 1000)],
                   trade_value |-> FormatUsd(movement.usd_value),
                   avg_trade |-> FormatUsd(stats.average_trade),
                   size_context |-> IF above THEN "above" ELSE "below",
                   whale_emoji |-> IF is_smart THEN "whale" ELSE "warning",
                   pnl |-> [unit |-> "K",
                            value |-> OneDecimal(IF stats.total_pnl_usd < 0 THEN 0 - stats.total_pnl_usd
                                                 ELSE stats.total_pnl_usd, 1000)],
                   profitable |-> stats.total_pnl_usd > 0,
                   strategy |-> IF is_smart /\ above THEN "high-confidence"
                                ELSE IF is_smart THEN "worth monitoring"
                                ELSE IF movement.usd_value * 2 > stats.average_trade * 3
                                  THEN "watch for reversal"
                                  ELSE "speculative",
                   hashtags |-> include_hashtags]]

\* "except Exception as e: ... return 'Unable to generate concise insight.'"
ConciseUncaught(b) ==
    [raised |-> b.raised, ret |-> b.insight]
Concise(b) ==
    IF b.raised # "none"
      THEN [raised |-> "none", ret |-> [text |-> "Unable to generate concise insight."]]
      ELSE [raised |-> "none", ret |-> b.insight]

\* a dictionary restricted to some of its keys
Restrict(d, keys) == [k \in keys |-> d[k]]

GenerateConciseWhaleInsight ==
    /\ \E sk \in SUBSET StatsKeys, mk \in SUBSET MovementKeys,
          w \in {400, 600}, pnl \in {0 - 540, 540}, u \in {800, 1600},
          include_hashtags \in BOOLEAN :
         LET stats == Restrict([total_volume_usd |-> 1250000, average_trade |-> 1000,
                                total_pnl_usd |-> pnl, win_rate |-> w], sk)
             movement == Restrict([usd_value |-> u, token_symbol |-> 0,
                                   movement_type |-> 0], mk)
             out == Concise(ConciseBody(stats, movement, include_hashtags))
         IN  call' = [op |-> "generate_concise_whale_insight", stats |-> stats,
                      movement |-> movement, include_hashtags |-> include_hashtags,
                      raised |-> out.raised, ret |-> out.ret]
    /\ UNCHANGED <<now, update_interval, dialect, last_token_update, last_holder_update, tokens,
                   holders, holder_rows, movements, wallet_stats, feed, updated_tokens,
                   alert, loop, batch, rvars>>

\* the API clients of the detector: BaseAPIClient defaults, no request running
InitClient ==
    /\ max_retries = 3
    /\ variant = "sync"
    /\ RetryIdle

(***************************************************************************)
(* Spec: the holder refresh over a changing holder list, on either store.  *)
(***************************************************************************)
Init ==
    /\ InitDetector
    /\ update_interval = 1
    /\ dialect \in {"sqlite", "postgresql"}
    /\ InitClient

Next ==
    \/ Tick
    \/ \E r \in Rows : FeedAppend(r)
    \/ FeedClear
    \/ \E t \in manual_tokens : StoreToken(t)
    \/ \E t \in Tokens : UpdateWhaleHolders(t)

Spec == Init /\ [][Next]_vars

(***************************************************************************)
(* SpecStats: the holder refresh and update_wallet_stats called on its own *)
(* (no movement), over the lists of one address.                           *)
(***************************************************************************)
FewRows == {HolderRow("A", 1000, 30000, 5), HolderRow("A", 1500, 80000, 5)}

InitStats ==
    /\ InitDetector
    /\ update_interval = 1
    /\ dialect = "postgresql"
    /\ InitClient

NextStats ==
    \/ Tick
    \/ \E r \in FewRows : FeedAppend(r)
    \/ FeedClear
    \/ \E t \in manual_tokens : StoreToken(t)
    \/ \E t \in Tokens : UpdateWhaleHolders(t)
    \/ \E a \in Addrs : UpdateWalletStats(a)

SpecStats == InitStats /\ [][NextStats]_vars

(***************************************************************************)
(* SpecSame: the holder refresh over lists that name one address with one  *)
(* balance at two valuations.                                              *)
(***************************************************************************)
SameRows == {HolderRow("A", 1000, 30000, 5), HolderRow("A", 1000, 40000, 6)}

NextSame ==
    \/ Tick
    \/ \E r \in SameRows : FeedAppend(r)
    \/ FeedClear
    \/ \E t \in manual_tokens : StoreToken(t)
    \/ \E t \in Tokens : UpdateWhaleHolders(t)

SpecSame == InitStats /\ [][NextSame]_vars

(***************************************************************************)
(* SpecStore: the row stores of WhaleService and of main.py over the rows  *)
(* of one address.                                                         *)
(***************************************************************************)
NextStore ==
    \/ Tick
    \/ \E t \in manual_tokens : StoreToken(t)
    \/ \E t \in Tokens, r \in FewRows \cup SameRows :
         \/ StoreWhaleHolder("WhaleService.store_whale_holder", t, r)
         \/ StoreWhaleHolder("main.store_whale_holder", t, r)

SpecStore == InitStats /\ [][NextStore]_vars

(***************************************************************************)
(* SpecGate: the two gated stages of monitor_loop, update_monitored_tokens *)
(* and update_whale_holders, under either update_interval.                 *)
(***************************************************************************)
InitGate ==
    /\ InitDetector
    /\ update_interval \in Intervals
    /\ dialect = "postgresql"
    /\ InitClient

NextGate ==
    \/ Tick
    \/ \E r \in FewRows : FeedAppend(r)
    \/ FeedClear
    \/ \E t \in manual_tokens : StoreToken(t)
    \/ UpdateMonitoredTokens
    \/ \E t \in Tokens : UpdateWhaleHolders(t)

SpecGate == InitGate /\ [][NextGate]_vars

(***************************************************************************)
(* SpecAlert: the alert decision of monitor_loop as a function of the      *)
(* token's classification and of the store: the inputs are drawn in the    *)
(* initial state and EvaluateWhale applies the decision.                   *)
(***************************************************************************)
\* usd_value of the snapshots of the evaluated wallet
HoldingValues == {30000, 70000, 80000}
Holding(u) == [balance |-> 1000, usd_value |-> u, percentage |-> 5]

InitAlert ==
    /\ now = 1
    /\ update_interval = 1
    /\ dialect = "postgresql"
    /\ InitClient
    /\ last_token_update = 1
    /\ last_holder_update = 1
    /\ tokens = [t \in Tokens |-> StoredTokenData]
    /\ feed = <<>>
    /\ alert = NoAlert
    /\ loop = NoLoop
    /\ batch = NoBatch
    /\ \E is_meme \in BOOLEAN :
         updated_tokens = <<[coin_type |-> "T1", is_meme_token |-> is_meme]>>
    /\ \E u1 \in HoldingValues, u2 \in HoldingValues \cup {NoneVal} :
         holders = [k \in Tokens \X Addrs |->
                       IF k = <<"T1", "A">> THEN Holding(u1)
                       ELSE IF k = <<"T2", "A">> /\ u2 # NoneVal THEN Holding(u2)
                       ELSE NoHolder]
    /\ holder_rows = [k \in Tokens \X Addrs |-> IF holders[k] = NoHolder THEN 0 ELSE 1]
    \* a committed movement always comes with the wallet's statistics row
    /\ \E has_stats \in BOOLEAN, has_movement \in BOOLEAN :
         /\ has_movement => has_stats
         /\ wallet_stats = [a \in Addrs |->
                 IF a = "A" /\ has_stats
                   THEN [total_trades |-> 10, total_pnl_usd |-> 500, total_volume_usd |-> 2000]
                   ELSE NoStats]
         /\ movements = IF has_movement
                           THEN <<[token |-> "T1", address |-> "A", movement_type |-> "buy",
                                   amount |-> 500, usd_value |-> 50000, timestamp |-> 1]>>
                           ELSE <<>>
         /\ call = [NoCall EXCEPT !.op = "update_whale_holders", !.token = "T1", !.at = 1,
                                   !.provider = TRUE, !.reconciled = TRUE, !.ret = <<"A">>,
                                   !.nmov = 0, !.prev_stats = wallet_stats]

NextAlert ==
    \E i \in 1..Len(updated_tokens), j \in 1..Len(call.ret) : EvaluateWhale(i, j)

SpecAlert == InitAlert /\ [][NextAlert]_vars

(***************************************************************************)
(* SpecWinRate: WalletStats.win_rate() over the rows the table can hold:   *)
(* the rows are drawn in the initial state (the provider decides the three *)
(* numbers), update_wallet_stats overwrites them and analyze_wallet        *)
(* computes the rate.                                                      *)
(***************************************************************************)
StatsRows ==
    {[total_trades |-> n, total_pnl_usd |-> p, total_volume_usd |-> v] :
        n \in {0, 10}, p \in {0 - 500, 0, 500}, v \in {0, 2000}}

InitWinRate ==
    /\ now = 0
    /\ update_interval = 1
    /\ dialect = "postgresql"
    /\ InitClient
    /\ last_token_update = DatetimeMin
    /\ last_holder_update = DatetimeMin
    /\ tokens = [t \in Tokens |-> NoToken]
    /\ holders = [k \in Tokens \X Addrs |-> NoHolder]
    /\ holder_rows = [k \in Tokens \X Addrs |-> 0]
    /\ movements = <<>>
    /\ wallet_stats \in [Addrs -> StatsRows \cup {NoStats}]
    /\ feed = <<>>
    /\ updated_tokens = <<>>
    /\ call = NoCall
    /\ alert = NoAlert
    /\ loop = NoLoop
    /\ batch = NoBatch

NextWinRate ==
    \/ \E a \in Addrs : UpdateWalletStats(a)
    \/ \E a \in Addrs : AnalyzeWallet(a)

SpecWinRate == InitWinRate /\ [][NextWinRate]_vars

(***************************************************************************)
(* SpecLoop: the cycles of monitor_loop over the tokens main.py stored.    *)
(***************************************************************************)
\* the holder row of the cycles: one wallet above the threshold
LoopRows == {HolderRow("A", 1000, 30000, 5)}

InitLoop ==
    /\ InitDetector
    /\ update_interval = 1
    /\ dialect = "postgresql"
    /\ InitClient

NextLoop ==
    \/ Tick
    \/ \E r \in LoopRows : FeedAppend(r)
    \/ \E t \in Tokens : StoreToken(t)
    \/ MonitorTokens
    \/ MonitorHolders
    \/ MonitorWhale
    \/ MonitorSleep
    \/ MonitorWake

SpecLoop == InitLoop /\ [][NextLoop]_vars

(***************************************************************************)
(* SpecLive: monitor_loop as the only task of the event loop: asyncio.run  *)
(* keeps resuming the coroutine and the clock keeps running, so every      *)
(* stage of the loop and the clock are weakly fair.  The tokens main.py    *)
(* stored and the list the holder provider serves are drawn in the initial *)
(* state; the list may hold a row without usd_value (a data error) and may *)
(* name an address twice (a store error on PostgreSQL).                    *)
(***************************************************************************)
\* the lists the holder provider serves: nothing, one wallet above the
\* threshold, a row without usd_value, the wallet named twice
LiveFeeds ==
    {<<>>,
     <<HolderRow("A", 1000, 30000, 5)>>,
     <<HolderRow("A", 1000, NoneVal, 5)>>,
     <<HolderRow("A", 1000, 30000, 5), HolderRow("A", 1000, 30000, 5)>>}

InitLive ==
    /\ now = 0
    /\ update_interval = 1
    /\ dialect = "postgresql"
    /\ InitClient
    /\ last_token_update = DatetimeMin
    /\ last_holder_update = DatetimeMin
    /\ \E stored \in {manual_tokens, Tokens} :
         tokens = [t \in Tokens |-> IF t \in stored THEN StoredTokenData ELSE NoToken]
    /\ holders = [k \in Tokens \X Addrs |-> NoHolder]
    /\ holder_rows = [k \in Tokens \X Addrs |-> 0]
    /\ movements = <<>>
    /\ wallet_stats = [a \in Addrs |-> NoStats]
    /\ feed \in LiveFeeds
    /\ updated_tokens = <<>>
    /\ call = NoCall
    /\ alert = NoAlert
    /\ loop = NoLoop
    /\ batch = NoBatch

NextLive ==
    \/ Tick
    \/ MonitorTokens
    \/ MonitorHolders
    \/ MonitorWhale
    \/ MonitorSleep
    \/ MonitorWake

SpecLive ==
    /\ InitLive /\ [][NextLive]_vars
    /\ WF_vars(Tick)
    /\ WF_vars(MonitorTokens) /\ WF_vars(MonitorHolders) /\ WF_vars(MonitorWhale)
    /\ WF_vars(MonitorSleep) /\ WF_vars(MonitorWake)

(***************************************************************************)
(* SpecSpacing: the functions of main.py that call the holder/activity     *)
(* provider for a list of coin types, over a clock whose tick is           *)
(* BLOCKBERRY_RATE_LIMIT seconds; Tick is the time the requests take.      *)
(***************************************************************************)
InitSpacing ==
    /\ InitDetector
    /\ update_interval = 1
    /\ dialect = "postgresql"
    /\ InitClient

NextSpacing ==
    \/ Tick
    \/ \E op \in BatchCallers, list \in CoinTypeLists : BatchStart(op, list)
    \/ HoldersCall
    \/ BatchSleep
    \/ HoldersDone
    \/ ActivityCall
    \/ ActivityDone

SpecSpacing == InitSpacing /\ [][NextSpacing]_vars

(***************************************************************************)
(* SpecActivity: step 3 of process_token_data over the activity lists the  *)
(* provider can answer for a whale: up to two activities, each with its    *)
(* types and its coins.                                                    *)
(***************************************************************************)
NextActivity ==
    \E address \in Addrs,
       n \in 0..2,
       a1, a2 \in [activityType : {{"Swap"}, {"Transfer"}},
                   coins : {<<>>, <<"LOFI">>, <<"Lofi", "SUI">>, <<"SUI">>}] :
        ProcessWhaleActivity(address, SubSeq(<<a1, a2>>, 1, n))

SpecActivity == InitSpacing /\ [][NextActivity]_vars

(***************************************************************************)
(* SpecService: TokenService.get_trending_tokens on top of the request     *)
(* loop of the discovery client.                                           *)
(***************************************************************************)
InitService ==
    /\ max_retries \in 0..MaxRetriesBound
    /\ variant = "sync"
    /\ RetryIdle
    /\ update_interval = 1
    /\ dialect = "postgresql"
    /\ InitDetector

NextService ==
    \/ StartRequest
    \/ MakeRequestAttempt
    \/ LoopExit
    \/ TokenServiceGetTrendingTokens

SpecService == InitService /\ [][NextService]_vars

(***************************************************************************)
(* SpecInsight: the two text generators of WhaleInsightGenerator that need *)
(* no language model, over the inputs their callers can pass.              *)
(***************************************************************************)
InitInsight ==
    /\ InitDetector
    /\ update_interval = 1
    /\ dialect = "postgresql"
    /\ InitClient

NextInsight ==
    \/ GenerateShortInsight
    \/ GenerateConciseWhaleInsight

SpecInsight == InitInsight /\ [][NextInsight]_vars

(***************************************************************************)
(* SpecCycle: the cycles of monitor_loop while the holders endpoint comes  *)
(* to serve other balances.                                                *)
(***************************************************************************)
NextCycle ==
    \/ NextLive
    \/ \E r \in FewRows : FeedAppend(r)
    \/ FeedClear

SpecCycle == InitLive /\ [][NextCycle]_vars

(***************************************************************************)
(* Claims about the request loop (checked under SpecRetry).                *)
(***************************************************************************)
LastAttempt == attempts[Len(attempts)]

AllTimeouts == \A i \in 1..Len(attempts) : attempts[i].kind = "timeout"

\* C6: retry exhaustion. A request whose every attempt timed out has slept
\* 2^1, 2^2, ... between the attempts made so far; when it ends it has made
\* exactly max_retries attempts, raises APITimeoutError and has slept
\* 2^i for i = 1..max_retries-1 only (no sleep after the final attempt).
C6_RetryExhaustion ==
    (attempts # <<>> /\ AllTimeouts) =>
        /\ rpc = "loop" =>
              /\ Len(attempts) < max_retries
              /\ sleeps = [i \in 1..Len(attempts) |-> Pow2(i)]
        /\ rpc = "done" =>
              /\ Len(attempts) = max_retries
              /\ result.kind = "APITimeoutError"
              /\ sleeps = [i \in 1..(max_retries - 1) |-> Pow2(i)]

C6_Witness ==
    /\ rpc = "done" /\ max_retries = 3
    /\ Len(attempts) = 3 /\ AllTimeouts
    /\ result.kind = "APITimeoutError"
    /\ sleeps = <<2, 4>>

\* C7 (as claimed): a 429 or 5xx response met while attempts remain is not
\* surfaced; the loop sleeps the backoff and goes on to another attempt.
C7_StatusRetriedLikeTimeout ==
    (/\ attempts # <<>>
     /\ LastAttempt.kind = "status"
     /\ LastAttempt.status \in {429, 500, 503}
     /\ Len(attempts) < max_retries) =>
        /\ rpc = "loop"
        /\ result.kind = "none"
        /\ sleeps # <<>> /\ sleeps[Len(sleeps)] = Pow2(Len(attempts))

\* C8: a 4xx response other than 429 ends the request at once with
\* APIResponseError carrying the status code; no sleep follows it, so the
\* sleeps are only those after the earlier retried failures, and a request
\* whose first response is such a 4xx made one attempt and never slept.
C8_ClientErrorNotRetried ==
    (/\ attempts # <<>>
     /\ LastAttempt.kind = "status"
     /\ LastAttempt.status \in {400, 404}) =>
        /\ rpc = "done"
        /\ result = [kind |-> "APIResponseError", status |-> LastAttempt.status]
        /\ retries = Len(attempts) - 1
        /\ Len(sleeps) = Len(attempts) - 1
        /\ \A i \in 1..(Len(attempts) - 1) : attempts[i].kind \in {"timeout", "http_error"}

C8_Witness ==
    /\ rpc = "done"
    /\ attempts = <<[kind |-> "status", status |-> 404]>>
    /\ sleeps = <<>>
    /\ result = [kind |-> "APIResponseError", status |-> 404]

\* the attempts made so far all failed by timeout or transport error
MixedFailures == \A i \in 1..Len(attempts) : attempts[i].kind \in {"timeout", "http_error"}

\* C33: bounded attempts under mixed failures. A request never makes more
\* than max_retries attempts; timeouts and transport errors count on one
\* counter, so a request that met only these, in any order, ends at attempt
\* max_retries, with APITimeoutError when the last failure was a timeout
\* and APIError when it was a transport error; and every request that
\* entered the loop comes to its end. Checked under SpecRetryLive.
C33_BoundedAttempts ==
    /\ [](Len(attempts) <= max_retries)
    /\ [](MixedFailures => retries = Len(attempts))
    /\ []((MixedFailures /\ attempts # <<>>) =>
            /\ rpc = "loop" => Len(attempts) < max_retries
            /\ rpc = "done" =>
                 /\ Len(attempts) = max_retries
                 /\ result = [kind |-> IF LastAttempt.kind = "timeout"
                                         THEN "APITimeoutError" ELSE "APIError",
                              status |-> 0])
    /\ (rpc = "loop") ~> (rpc = "done")

\* a timeout, a transport error and a timeout exhaust three retries
C33_Witness ==
    /\ rpc = "done" /\ max_retries = 3
    /\ Len(attempts) = 3
    /\ attempts[1].kind = "timeout" /\ attempts[2].kind = "http_error"
    /\ attempts[3].kind = "timeout"
    /\ result.kind = "APITimeoutError"
    /\ sleeps = <<2, 4>>

\* C34 (as claimed): a request that ended either returned a response or
\* raised APIError or one of its subclasses; it never returned without a
\* response, for every max_retries, 0 included. Checked under SpecRetry.
C34_ResponseOrAPIError ==
    rpc = "done" =>
        result.kind \in {"response", "APIError", "APITimeoutError", "APIResponseError"}

(***************************************************************************)
(* Claims about the holder refresh (checked under Spec).                   *)
(***************************************************************************)
Abs(x) == IF x < 0 THEN 0 - x ELSE x

IsReconcile == call.op = "update_whale_holders"

\* a step that is a call of the stage: the call history changes to a call
\* of that operation
HolderStageCalled == call' # call /\ call'.op = "update_whale_holders"
TokenStageCalled == call' # call /\ call'.op = "update_monitored_tokens"

\* the row of a log entry is well formed and at or above the threshold
AboveThreshold(e) ==
    /\ e.row.usd_value # NoneVal /\ e.row.usd_value >= min_whale_holdings
    /\ e.row.balance # NoneVal

\* the loop reached a row whose snapshot exists with another balance
SawChange(e) ==
    /\ AboveThreshold(e)
    /\ e.before # NoHolder
    /\ e.row.balance # e.before.balance

ExpectedMovement(e) ==
    [token |-> call.token, address |-> e.row.address,
     movement_type |-> IF e.row.balance > e.before.balance THEN "buy" ELSE "sell",
     amount |-> Abs(e.row.balance - e.before.balance),
     usd_value |-> Abs(e.row.usd_value - e.before.usd_value),
     timestamp |-> call.at]

\* the movements the rows of a log hand to the store, in order; the row at
\* which the database rejected the commit hands over nothing
RECURSIVE ExpectedCommitted(_)
ExpectedCommitted(log) ==
    IF log = <<>> THEN <<>>
    ELSE (IF SawChange(Head(log)) /\ Head(log).kind # "rejected"
            THEN <<ExpectedMovement(Head(log))>> ELSE <<>>)
         \o ExpectedCommitted(Tail(log))

NewMovements == SubSeq(movements, call.nmov + 1, Len(movements))

\* C1: movement sign correctness. Every row the refresh reaches whose
\* snapshot exists with a different balance emits exactly one Movement: buy
\* if the fetched balance is greater and sell otherwise, amount and usd_value
\* the absolute differences of balance and usd_value; no other row emits
\* one, and the movements the call adds to the store are exactly these, in
\* order (one whose commit the database rejects is lost with the call).
C1_MovementSign ==
    IsReconcile =>
        /\ \A i \in 1..Len(call.log) :
             IF SawChange(call.log[i])
               THEN call.log[i].movement = ExpectedMovement(call.log[i])
               ELSE call.log[i].movement = NoMovement
        /\ NewMovements = ExpectedCommitted(call.log)

C1_Witness ==
    /\ IsReconcile
    /\ \E i \in 1..Len(call.log) :
         /\ SawChange(call.log[i])
         /\ call.log[i].before.balance = 1000 /\ call.log[i].row.balance = 1500
         /\ call.log[i].movement.movement_type = "buy"
         /\ call.log[i].movement.amount = 500
         /\ call.log[i].movement.usd_value = 50000
    /\ Len(NewMovements) = 1
    /\ movements[Len(movements)].movement_type = "buy"

\* the row of a log entry is a well-formed first sighting: above the
\* threshold, every field present, no snapshot of (token, address)
FirstSighting(e) ==
    /\ AboveThreshold(e)
    /\ e.row.percentage # NoneVal
    /\ e.before = NoHolder

\* C2 (as claimed): first-sighting baseline. After a refresh, every fetched
\* above-threshold row that found no snapshot of its (token, address) has
\* emitted no Movement and has its snapshot in the store, holding the
\* fetched values.
C2_FirstSightingBaseline ==
    IsReconcile =>
        \A i \in 1..Len(call.log) :
            FirstSighting(call.log[i]) =>
                /\ call.log[i].movement = NoMovement
                /\ holders[<<call.token, call.log[i].row.address>>] =
                       [balance |-> call.log[i].row.balance,
                        usd_value |-> call.log[i].row.usd_value,
                        percentage |-> call.log[i].row.percentage]

\* C3 (as claimed): no-op stability. A refresh that reconciles the list the
\* previous refresh of the token reconciled emits no Movement and leaves
\* whale_movements as it was.
C3_NoOpStability ==
    (IsReconcile /\ call.repeat) =>
        /\ \A i \in 1..Len(call.log) : call.log[i].movement = NoMovement
        /\ Len(movements) = call.nmov

BelowThreshold(e) ==
    e.row.usd_value # NoneVal /\ e.row.usd_value < min_whale_holdings

OnlyBelow(a) ==
    \A j \in 1..Len(call.log) :
        call.log[j].row.address = a => BelowThreshold(call.log[j])

\* C4: threshold filtering. A fetched row whose usd_value is below
\* min_whale_holdings is passed over: it emits no Movement, and when the
\* fetched rows of its address are all below the threshold the snapshot of
\* (token, address) is after the refresh what it was before (none, if there
\* was none) and whale_movements gained nothing for the address. This holds
\* after every refresh, first or repeated.
C4_ThresholdFiltering ==
    IsReconcile =>
        \A i \in 1..Len(call.log) :
            BelowThreshold(call.log[i]) =>
                /\ call.log[i].kind = "below"
                /\ call.log[i].movement = NoMovement
                /\ OnlyBelow(call.log[i].row.address) =>
                     /\ holders[<<call.token, call.log[i].row.address>>] = call.log[i].before
                     /\ \A m \in 1..Len(NewMovements) :
                          NewMovements[m].address # call.log[i].row.address

C4_Witness ==
    /\ IsReconcile /\ call.repeat /\ call.raised = "none"
    /\ \E i \in 1..Len(call.log) :
         /\ BelowThreshold(call.log[i])
         /\ call.log[i].before = NoHolder
         /\ holders[<<call.token, call.log[i].row.address>>] = NoHolder
    /\ movements = <<>>

\* the loop reached a row whose snapshot exists with the balance of the row
SawSameBalance(e) ==
    /\ AboveThreshold(e)
    /\ e.before # NoHolder
    /\ e.before.balance = e.row.balance

\* C30 (as claimed): equal-balance reconcile is a no-op. A fetched row whose
\* balance equals the balance of the stored snapshot emits no Movement and
\* leaves the snapshot (balance, usd_value, percentage) as it was, even when
\* the fetched usd_value or percentage differs from the stored one. Stated
\* for a list that names the address once. Checked under SpecSame.
C30_EqualBalanceNoOp ==
    IsReconcile =>
        \A i \in 1..Len(call.log) :
            (/\ SawSameBalance(call.log[i])
             /\ \A j \in 1..Len(call.log) :
                  j # i => call.log[j].row.address # call.log[i].row.address) =>
                /\ call.log[i].movement = NoMovement
                /\ holders[<<call.token, call.log[i].row.address>>] = call.log[i].before

\* a step stores one fetched row through WhaleService or main.py
RowStored ==
    /\ call' # call
    /\ call'.op \in {"WhaleService.store_whale_holder", "main.store_whale_holder"}

\* C37 (as claimed): the three reconcile implementations agree. Whenever
\* WhaleService.store_whale_holder or main.store_whale_holder stores a
\* fetched row, the snapshots and the Movements it leaves are those
\* WhaleDetector.update_whale_holders leaves for the same store and the
\* list of that one row. Checked under SpecStore.
C37_ImplementationsAgree ==
    [][RowStored =>
         \A resp \in TraderResponses :
             LET R == Reconcile(call'.token, <<call'.log[1].row>>, resp, now)
             IN  /\ R.raised = "none"
                 /\ holders' = R.db
                 /\ movements' = R.mov
      ]_vars

\* C16: snapshot uniqueness. In every state of the store each
\* (token, address) pair has at most one row in whale_holders, and has one
\* exactly when a snapshot of the pair is stored; this holds on either
\* database, after lists that name an address twice and after any sequence
\* of refreshes.
C16_SnapshotUniqueness ==
    \A k \in Tokens \X Addrs :
        /\ holder_rows[k] <= 1
        /\ holder_rows[k] = 1 <=> holders[k] # NoHolder

\* a list naming a new address twice was reconciled and committed
C16_Witness ==
    /\ IsReconcile /\ call.raised = "none" /\ call.token = "T1"
    /\ Len(call.log) = 2
    /\ call.log[1].kind = "created" /\ call.log[2].kind = "created"
    /\ call.log[1].row.address = "A" /\ call.log[2].row.address = "A"
    /\ call.log[1].row.balance = 1000 /\ call.log[2].row.balance = 1500
    /\ holder_rows[<<"T1", "A">>] = 1
    /\ holders[<<"T1", "A">>].balance = 1500

\* how many rows of a movements table belong to a (token, address) pair
CountOf(mov, t, a) ==
    Cardinality({i \in 1..Len(mov) : mov[i].token = t /\ mov[i].address = a})

\* the entries of a log for an address
EntriesOf(log, a) == {i \in 1..Len(log) : log[i].row.address = a}

\* C17: movement count. Every refresh that completes and fetched one
\* above-threshold balance b for a (token, address) pair leaves the stored
\* snapshot balance equal to b and adds one Movement of the pair if a
\* snapshot was stored with a balance other than b, none otherwise (none at
\* the first sighting); no step other than a refresh touches the snapshots
\* or the movements. Hence over successive such refreshes with balances
\* b1, ..., bn the Movements of the pair number the i >= 2 with
\* b_i # b_(i-1).
C17_MovementCount ==
    [][/\ (HolderStageCalled /\ call'.reconciled /\ call'.provider /\ call'.raised = "none") =>
            \A a \in Addrs :
                (/\ Cardinality(EntriesOf(call'.log, a)) = 1
                 /\ \A i \in EntriesOf(call'.log, a) : AboveThreshold(call'.log[i])) =>
                    LET b == call'.log[CHOOSE i \in EntriesOf(call'.log, a) : TRUE].row.balance
                        k == <<call'.token, a>>
                    IN  /\ holders'[k] # NoHolder /\ holders'[k].balance = b
                        /\ CountOf(movements', k[1], a) - CountOf(movements, k[1], a) =
                              IF holders[k] # NoHolder /\ holders[k].balance # b THEN 1 ELSE 0
       /\ ~(HolderStageCalled /\ ~call'.gated /\ call'.raised # "APIError") =>
            UNCHANGED <<holders, holder_rows, movements>>
      ]_vars

\* balances 1000, 1500, 1000 fetched by three refreshes: two Movements and
\* the last balance as the baseline
C17_Witness ==
    /\ IsReconcile /\ call.raised = "none" /\ call.at = 2
    /\ Len(call.log) = 1 /\ call.log[1].kind = "moved"
    /\ CountOf(movements, "T1", "A") = 2
    /\ movements[1].movement_type = "buy" /\ movements[1].timestamp = 1
    /\ movements[2].movement_type = "sell" /\ movements[2].timestamp = 2
    /\ holders[<<"T1", "A">>].balance = 1000

\* the entries of a log whose row names the address at or above the threshold
AboveEntriesOf(log, a) == {i \in EntriesOf(log, a) : AboveThreshold(log[i])}

\* C35: a tracked whale that falls below the threshold is frozen. A refresh
\* whose list names an address with a stored snapshot only below
\* min_whale_holdings, or not at all, leaves the snapshot as it was and
\* adds no Movement of the pair; and a refresh that fetches such an address
\* at or above the threshold (once) with another balance computes its
\* Movement against the balance that was stored, however old: buy or sell
\* by the comparison with it, amount the absolute difference.
C35_BelowThresholdFrozen ==
    [][HolderStageCalled =>
         \A a \in Addrs :
             LET k == <<call'.token, a>>
                 above == AboveEntriesOf(call'.log, a)
             IN  holders[k] # NoHolder =>
                   /\ above = {} =>
                        /\ holders'[k] = holders[k]
                        /\ CountOf(movements', k[1], a) = CountOf(movements, k[1], a)
                   /\ (/\ call'.raised = "none"
                       /\ Cardinality(EntriesOf(call'.log, a)) = 1
                       /\ Cardinality(above) = 1) =>
                        LET e == call'.log[CHOOSE i \in above : TRUE]
                        IN  e.row.balance # holders[k].balance =>
                              /\ e.movement.amount = Abs(e.row.balance - holders[k].balance)
                              /\ e.movement.movement_type =
                                    (IF e.row.balance > holders[k].balance THEN "buy" ELSE "sell")
                              /\ CountOf(movements', k[1], a) = CountOf(movements, k[1], a) + 1
                              /\ movements'[Len(movements')] = e.movement
      ]_vars

\* the refresh at time 1 met the tracked address below the threshold and
\* left its snapshot of time 0
C35_Witness ==
    /\ IsReconcile /\ call.raised = "none" /\ call.at = 1
    /\ Len(call.log) = 1 /\ call.log[1].kind = "below"
    /\ call.log[1].row = HolderRow("A", 1000, 500, 5)
    /\ call.log[1].before = [balance |-> 1000, usd_value |-> 30000, percentage |-> 5]
    /\ holders[<<call.token, "A">>] = call.log[1].before
    /\ movements = <<>>

\* the entry of a log committed a Movement and is the last entry of its
\* address
LastCommitted(log, i) ==
    /\ SawChange(log[i]) /\ log[i].kind # "rejected"
    /\ \A j \in EntriesOf(log, log[i].row.address) : j <= i

\* C18 (as claimed): atomic units of work. After a refresh, however it
\* ended, every row whose Movement is in the store has its snapshot
\* overwritten too: the stored balance of the pair is the fetched one, not
\* the balance the Movement was computed from.
C18_AtomicReconcile ==
    IsReconcile =>
        \A i \in 1..Len(call.log) :
            LastCommitted(call.log, i) =>
                holders[<<call.token, call.log[i].row.address>>].balance =
                    call.log[i].row.balance

\* the provider answered the last holder refresh with the list in feed
Reconciled ==
    /\ IsReconcile /\ ~call.gated /\ call.provider /\ call.raised # "APIError"

Malformed(r) ==
    r.balance = NoneVal \/ r.usd_value = NoneVal \/ r.percentage = NoneVal

\* C20 (as claimed): malformed holder rows are skipped. A refresh whose
\* fetched list has a row lacking a field raises no TypeError, and every
\* other row of the list that is above the threshold (its address named
\* once) is reconciled and committed: its snapshot holds the fetched values.
C20_MalformedRowsSkipped ==
    (Reconciled /\ \E i \in 1..Len(feed) : Malformed(feed[i])) =>
        /\ call.raised # "TypeError"
        /\ \A i \in 1..Len(feed) :
             (/\ ~Malformed(feed[i])
              /\ feed[i].usd_value >= min_whale_holdings
              /\ \A j \in 1..Len(feed) : feed[j].address = feed[i].address => j = i) =>
                 holders[<<call.token, feed[i].address>>] =
                     [balance |-> feed[i].balance, usd_value |-> feed[i].usd_value,
                      percentage |-> feed[i].percentage]

\* the wallet-statistics aggregation ran at an entry of the log: the loop
\* built a Movement there and called update_wallet_stats with it
Aggregated(e) == e.movement # NoMovement

\* C22 (as claimed): stage ordering within a cycle. When the
\* wallet-statistics aggregation runs for a whale of a token, every holder
\* row of the token's fetched list has been reconciled: the refresh
\* reconciles no row after a row it aggregated statistics for.
C22_StageOrdering ==
    IsReconcile =>
        \A i \in 1..Len(call.log) :
            Aggregated(call.log[i]) => i = Len(call.log)

(***************************************************************************)
(* Claims about update_wallet_stats (checked under SpecStats).             *)
(***************************************************************************)
ProviderFailed == call.trader \in {"error", "empty"}

\* C10: stats are never reset by a failed refresh. When the
\* trader-statistics provider fails or answers nothing, every WalletStats
\* row stored before the call is after it what it was (trade count, PnL,
\* volume, and so the win rate), whether update_wallet_stats was called on
\* its own or by the holder refresh for a Movement; called on its own it
\* returns the row stored before.
C10_StatsKeptOnFailedRefresh ==
    (call.op \in {"update_wallet_stats", "update_whale_holders"} /\ ProviderFailed) =>
        /\ \A a \in Addrs :
             call.prev_stats[a] # NoStats =>
                 /\ wallet_stats[a] = call.prev_stats[a]
                 /\ WinRate(wallet_stats[a]) = WinRate(call.prev_stats[a])
        /\ (call.op = "update_wallet_stats" /\ call.prev_stats[call.address] # NoStats) =>
               call.stats = call.prev_stats[call.address]

C10_Witness ==
    /\ IsReconcile /\ call.trader = "error"
    /\ Len(NewMovements) = 1
    /\ NewMovements[1].address = "A"
    /\ call.prev_stats["A"].total_trades = 10
    /\ wallet_stats["A"] = call.prev_stats["A"]

(***************************************************************************)
(* Claims about the win rate (checked under SpecWinRate).                  *)
(***************************************************************************)
Analyzed == call.op = "analyze_wallet" /\ call.stats # NoStats

\* C40: win rate is a percentage. For every WalletStats row the aggregator
\* can leave (total volume and trade count not negative, PnL of either
\* sign), the value WalletStats.win_rate() returns, which analyze_wallet
\* reports, lies in the range 0..100.
C40_WinRateIsPercentage ==
    Analyzed =>
        /\ call.stats.total_trades >= 0 /\ call.stats.total_volume_usd >= 0
        /\ call.raised = "none" =>
              /\ call.analysis.win_rate = WinRate(call.stats)
              /\ call.analysis.win_rate \in 0..100

\* C11: win-rate boundary. Analysing a wallet never raises a division
\* error, whatever its trade count and total volume (0 included), and for a
\* WalletStats row with total_trades = 0 the win rate (and the average
\* trade size) it reports is 0.
C11_WinRateBoundary ==
    Analyzed =>
        /\ call.raised = "none"
        /\ win_rate(call.stats).raised = "none"
        /\ call.stats.total_trades = 0 =>
              /\ call.analysis.win_rate = 0
              /\ call.analysis.avg_trade_size = 0
              /\ win_rate(call.stats).value = 0

\* a row with trades on record and no volume, and a row without trades
C11_Witness ==
    /\ Analyzed /\ call.raised = "none"
    /\ call.stats.total_trades = 0 /\ call.stats.total_volume_usd = 2000
    /\ call.stats.total_pnl_usd = 500
    /\ call.analysis.win_rate = 0
    /\ \E a \in Addrs : wallet_stats[a].total_trades = 10 /\ wallet_stats[a].total_volume_usd = 0

\* C12 (as claimed): after the aggregator stored the provider's numbers
\* with total_trades > 0, the win rate of the WalletStats row is
\* wins / total_trades * 100.
C12_WinRateIsWinsOverTrades ==
    (/\ call.op = "update_wallet_stats" /\ call.trader = "data"
     /\ call.stats.total_trades > 0) =>
        /\ wallet_stats[call.address] = call.stats
        /\ win_rate(call.stats).raised = "none"
        /\ win_rate(call.stats).value * call.stats.total_trades = call.wins * 100

\* C32 (as claimed): provider-sourced stats ignore the movement. When the
\* trader-statistics provider returns data, the WalletStats row that
\* update_wallet_stats writes has the provider's trade count, volume and PnL
\* and its win rate is the provider's win rate, whatever the row held before
\* and whatever movement the call was made for.
C32_ProviderSourcedStats ==
    (call.op = "update_wallet_stats" /\ ~call.trader_stats.raised) =>
        LET st == wallet_stats[call.address]
            ts == call.trader_stats
        IN  /\ st.total_trades = ts.total_trades
            /\ st.total_pnl_usd = ts.pnl
            /\ st.total_volume_usd = ts.volume
            /\ WinRate(st) = ts.win_rate

(***************************************************************************)
(* Claims about the rate gate (checked under SpecGate).                    *)
(***************************************************************************)
StoreUnchanged == UNCHANGED <<tokens, holders, holder_rows, movements, wallet_stats>>

\* C5: rate gate. A call of the holder refresh or of the token refresh made
\* less than update_interval after the stage's recorded last run returns
\* the empty list, invokes no upstream provider and changes neither the
\* store nor a last-run timestamp; a call of a stage that has never run is
\* not gated and goes to its provider.
C5_RateGate ==
    [][/\ HolderStageCalled =>
            /\ now - last_holder_update < update_interval =>
                 /\ call'.gated /\ call'.ret = <<>> /\ ~call'.provider
                 /\ StoreUnchanged
                 /\ UNCHANGED <<last_holder_update, last_token_update>>
            /\ last_holder_update = DatetimeMin => (~call'.gated /\ call'.provider)
       /\ TokenStageCalled =>
            /\ now - last_token_update < update_interval =>
                 /\ call'.gated /\ call'.ret = <<>> /\ ~call'.provider
                 /\ StoreUnchanged
                 /\ UNCHANGED <<last_holder_update, last_token_update, updated_tokens>>
            /\ last_token_update = DatetimeMin => (~call'.gated /\ call'.provider)
      ]_vars

\* a gated holder refresh one tick after the last run, with a list that a
\* run would have recorded a movement for
C5_Witness ==
    /\ IsReconcile /\ call.gated /\ call.ret = <<>> /\ ~call.provider
    /\ update_interval = 2 /\ call.at = 1 /\ last_holder_update = 0
    /\ last_token_update = 0
    /\ holders[<<"T1", "A">>] # NoHolder
    /\ feed = <<HolderRow("A", 1500, 80000, 5)>>
    /\ holders[<<"T1", "A">>].balance = 1000
    /\ movements = <<>>

(***************************************************************************)
(* Claims about the watchlist refresh (checked under SpecGate).            *)
(***************************************************************************)
Range(seq) == {seq[i] : i \in 1..Len(seq)}

\* the last call was a token refresh that passed the gate
TokenRefresh == call.op = "update_monitored_tokens" /\ ~call.gated

\* C13: watchlist fallback. When the trending-token provider fails, the
\* token refresh raises nothing and completes (the stage's last-run time is
\* the time of the call); the coin types it goes through are exactly the
\* manual tokens, each once.
C13_WatchlistFallback ==
    (TokenRefresh /\ call.trader = "APIError") =>
        /\ call.raised = "none"
        /\ last_token_update = call.at
        /\ Range(call.processed) = manual_tokens
        /\ Len(call.processed) = Cardinality(manual_tokens)

\* the provider failed and the stored manual token was refreshed
C13_Witness ==
    /\ TokenRefresh /\ call.trader = "APIError"
    /\ call.processed = <<"T1">>
    /\ call.ret = <<"T1">>
    /\ tokens["T1"].price_usd = TokenDetails.price

\* the coin types of the entries of a trending list whose market cap is at
\* least min_market_cap
Eligible(list) ==
    {list[i].coin : i \in {j \in 1..Len(list) : list[j].marketCap >= min_market_cap}}

\* C14 (as claimed): watchlist membership. When the trending-token provider
\* answers, the coin types the token refresh goes through are exactly the
\* manual tokens and the trending tokens whose market cap is at least
\* min_market_cap, each once.
C14_WatchlistMembership ==
    (TokenRefresh /\ call.trader = "trending") =>
        /\ Range(call.processed) = manual_tokens \cup Eligible(call.trending)
        /\ Len(call.processed) = Cardinality(Range(call.processed))

\* C15 (as claimed): token lifecycle. A token refresh that goes through a
\* coin type without a Token row, for which the token-details provider has
\* data, leaves a Token row for it and returns it; no step removes a Token
\* row.
C15_TokenLifecycle ==
    [][/\ (TokenStageCalled /\ ~call'.gated) =>
            \A X \in Range(call'.processed) :
                (tokens[X] = NoToken /\ X \in call'.with_details) =>
                    /\ tokens'[X] # NoToken
                    /\ X \in Range(call'.ret)
       /\ \A X \in Tokens : tokens[X] # NoToken => tokens'[X] # NoToken
      ]_vars

\* C38: gate timestamp discipline. The last-run time of a stage changes
\* only in a call of that stage that passed the gate and ran to its end,
\* and becomes the time at which that call started; a call that was gated
\* or that an exception left (provider or store failure) leaves it as it
\* was, so the failed run gates no later call. No other step changes a
\* last-run time.
C38_GateTimestamps ==
    [][/\ HolderStageCalled =>
            /\ last_holder_update' =
                  (IF call'.gated \/ call'.raised # "none" THEN last_holder_update
                                                            ELSE call'.at)
            /\ call'.at = now
            /\ last_token_update' = last_token_update
       /\ TokenStageCalled =>
            /\ last_token_update' =
                  (IF call'.gated \/ call'.raised # "none" THEN last_token_update
                                                            ELSE call'.at)
            /\ call'.at = now
            /\ last_holder_update' = last_holder_update
       /\ ~(HolderStageCalled \/ TokenStageCalled) =>
            UNCHANGED <<last_token_update, last_holder_update>>
      ]_vars

\* the refresh of time 0 completed, the refresh of time 2 passed the gate
\* and the store rejected it: the last-run time is still 0
C38_Witness ==
    /\ IsReconcile /\ call.at = 2 /\ ~call.gated
    /\ call.raised = "IntegrityError"
    /\ last_holder_update = 0
    /\ now = 2

\* C31 (as claimed): meme classification of stored tokens. The meme flag the
\* watchlist refresh writes for a token is true exactly when the token is
\* not in the utility override list and its name or symbol holds a meme
\* keyword or its market cap is below 10,000,000: a token of market cap
\* 10,000,000 or more without a keyword is written as utility.
C31_MemeClassification ==
    TokenRefresh =>
        \A i \in 1..Len(updated_tokens) :
            updated_tokens[i].is_meme_token <=>
                /\ updated_tokens[i].coin_type \notin utility_tokens
                /\ (TokenDetails.keyword \/ TokenDetails.market_cap < 10000000)

(***************************************************************************)
(* Claims about the cycle of monitor_loop (checked under SpecLoop).        *)
(***************************************************************************)
\* the cycle is over: the loop sleeps or is back at the top
CycleOver == loop.pc \in {"sleep", "start"}

\* C19 (as claimed): a provider failure on one item never aborts the
\* cycle. When the holder provider fails for a token of the cycle, the loop
\* does not leave the cycle through its except clause, and by the end of
\* the cycle update_whale_holders has been called for every token the
\* token refresh returned.
C19_ProviderFailureContinues ==
    loop.failed # {} =>
        /\ loop.pc # "except"
        /\ CycleOver => Range(CoinTypes(updated_tokens)) \subseteq Range(loop.called)

\* C25 (as claimed): StoreError handling. When a commit of the store fails
\* during a holder refresh of the cycle (IntegrityError), the store is left
\* as the refresh found it, the loop does not leave the cycle through its
\* except clause, and by the end of the cycle update_whale_holders has been
\* called for every token the token refresh returned.
C25_StoreErrorContinues ==
    (IsReconcile /\ call.raised = "IntegrityError") =>
        /\ wallet_stats = call.prev_stats
        /\ Len(movements) = call.nmov
        /\ loop.pc # "except"
        /\ CycleOver => Range(CoinTypes(updated_tokens)) \subseteq Range(loop.called)

\* C29 (as claimed): every watched token is refreshed each cycle. When a
\* cycle whose watchlist refresh returned two tokens or more comes to its
\* sleep, the holder provider has been queried and the holders reconciled
\* for every one of these tokens, not only for the first.
C29_EveryTokenRefreshed ==
    (loop.pc = "sleep" /\ Len(updated_tokens) >= 2) =>
        Range(CoinTypes(updated_tokens)) \subseteq Range(loop.refreshed)

\* the loop printed an alert for the whale it evaluated last
AlertEmitted == alert.kind = "decided" /\ alert.priority # "none"

\* C36 (as claimed): alerts correspond to new movements. The loop prints an
\* alert for a whale only if the holder refresh of that cycle recorded a
\* Movement of the whale; a Movement of an earlier cycle causes no alert in
\* a cycle in which the balance did not change. Checked under SpecCycle.
C36_AlertsFollowNewMovements ==
    AlertEmitted =>
        /\ IsReconcile
        /\ \E m \in 1..Len(NewMovements) : NewMovements[m].address = alert.address

\* a step of the loop evaluates the alert of a whale
WhaleEvaluated == loop.pc = "whales" /\ loop' # loop

C24_InterCallSpacing ==
    \A k \in 2..Len(batch.calls) :
        batch.calls[k].at - batch.calls[k - 1].at >= SleepTicks(BLOCKBERRY_RATE_LIMIT)

\* an activity of the list is a Swap that involves the LOFI coin
LofiSwapIn(activity_list) ==
    \E i \in 1..Len(activity_list) :
        /\ "Swap" \in activity_list[i].activityType
        /\ \E c \in 1..Len(activity_list[i].coins) :
             activity_list[i].coins[c] \in {"LOFI", "Lofi", "lofi"}

ServiceCalled == call.op = "TokenService.get_trending_tokens"

\* the discovery provider timed out, answered 429 or 5xx, or answered 2xx
\* with a body that is not the list of tokens
SoftFailure(c) ==
    \/ c.result.kind = "APITimeoutError"
    \/ c.result.kind = "APIResponseError" /\ (c.result.status = 429 \/ c.result.status >= 500)
    \/ c.result.kind = "response" /\ c.body \in {"dict", "null"}

\* C26 (as claimed): TokenService.get_trending_tokens returns the empty
\* list and raises nothing when the discovery provider times out, answers
\* 429 or 5xx, or returns a response with missing or invalid data; it
\* raises only for other client errors and unexpected API errors.
C26_TrendingServiceErrors ==
    ServiceCalled =>
        /\ SoftFailure(call) => (call.raised = NoExc /\ call.ret = <<>>)
        /\ call.raised # NoExc => ~SoftFailure(call)

(***************************************************************************)
(* Claims about the insight texts (checked under SpecInsight).             *)
(***************************************************************************)
\* C27: classification by win rate. For every win rate generate_short_insight
\* says "smart" whale exactly when the rate is above 50 and "risky"
\* otherwise, and chooses one signal: "strong bullish signal" above 65,
\* "could signal a trend shift" above 50 up to 65, "high-risk movement"
\* below 35, "proceed with caution" from 35 to 50.
C27_ShortInsightClasses ==
    call.op = "generate_short_insight" =>
        LET w == call.win_rate
        IN  /\ call.raised = "none"
            /\ call.ret.whale_type = (IF w > 500 THEN "smart" ELSE "risky")
            /\ call.ret.whale_type \in {"smart", "risky"}
            /\ call.ret.signal = "strong bullish signal" <=> w > 650
            /\ call.ret.signal = "could signal a trend shift" <=> (500 < w /\ w <= 650)
            /\ call.ret.signal = "high-risk movement" <=> w < 350
            /\ call.ret.signal = "proceed with caution" <=> (350 <= w /\ w <= 500)
            /\ call.ret.signal \in {"strong bullish signal", "could signal a trend shift",
                                     "high-risk movement", "proceed with caution"}

\* a whale at exactly 65 percent: smart, and not yet a strong signal
C27_Witness ==
    /\ call.op = "generate_short_insight"
    /\ call.win_rate = 650 /\ call.amount_usd = 15500
    /\ call.ret.whale_type = "smart"
    /\ call.ret.signal = "could signal a trend shift"
    /\ call.ret.formatted_amount = [unit |-> "K", value |-> 155]

\* C28: generate_concise_whale_insight never raises, and when stats or
\* movement lacks one of the fields it reads it returns the text "Unable to
\* generate concise insight."; with every field present it returns an
\* insight.
C28_ConciseNeverRaises ==
    call.op = "generate_concise_whale_insight" =>
        /\ call.raised = "none"
        /\ (StatsKeys \subseteq DOMAIN call.stats /\ MovementKeys \subseteq DOMAIN call.movement)
              <=> call.ret.text # "Unable to generate concise insight."

\* the movement lacks nothing and the stats lack the win rate only
C28_Witness ==
    /\ call.op = "generate_concise_whale_insight"
    /\ DOMAIN call.movement = MovementKeys
    /\ DOMAIN call.stats = StatsKeys \ {"win_rate"}
    /\ call.raised = "none"
    /\ call.ret.text = "Unable to generate concise insight."

C9_AlertPolicy ==
    alert.kind = "decided" =>
        /\ alert.total_holdings = SumHoldings(Tokens, alert.address)
        /\ alert.is_meme => alert.priority = "high"
        /\ ~alert.is_meme =>
             /\ alert.priority \in {"low", "none"}
             /\ alert.priority = "low" <=> alert.total_holdings > 100000

C9_Witness ==
    /\ alert.kind = "decided" /\ ~alert.is_meme
    /\ alert.total_holdings = 110000
    /\ alert.priority = "low"

====
